---- MODULE Spec2Model ----
(***************************************************************************)
(* Verification model of figma-vscode-sync: the stylesheet parse           *)
(* continuation list, the layer tree (pruning and derived styles), the     *)
(* component dependency sort and the stylesheet scope tree.                *)
(***************************************************************************)
EXTENDS Integers, Sequences, FiniteSets, TLC

VARIABLES
    \* ---- Stylesheet (src/src/stylesheet.ts), continuation list
    parsePromise,     \* "pending" | "rejected" (both: the field holds the promise) | "undefined"
    parsedCallbacks,  \* Stylesheet.parsedCallbacks: sequence of [id, kind]
    invoked,          \* log of the callback ids invoked so far, in order
    registered,       \* log of [id, phase] for every addParsedFileCallback call
    nextId,           \* identity given to the next registered function
    \* ---- Layer tree (src/src/figmalayer.ts, src/src/figma-components.ts)
    doc,              \* the fetched node tree: node id -> [type, parent, styles]
    prunedChildren,   \* layer id -> result of FigmaLayer.getPrunedChildren()
    prunedParent,     \* layer id -> result of FigmaLayer.getPrunedParent() (0: undefined)
    layerStyles,      \* layer id -> result of the getter FigmaLayer.styles
    \* ---- FigmaUtil.sortByDependency (src/unnamed/part_012)
    components,       \* the argument: sequence of component nodes
    sortedArray,      \* the returned array
    sortCalled,       \* TRUE once sortByDependency has returned
    \* ---- Stylesheet scopes (src/src/stylesheet.ts)
    text,             \* the node stream postcss gives for the editor's text
    scopes,           \* the scope tree: scopes[1] is baseScope
    parsed,           \* TRUE once createStyleSheetScopes has run
    \* ---- Scope against layer (src/src/stylesheet.ts, src/unnamed/part_003)
    baseStyles,       \* _styles of the base scope: ordered [prop, value] entries
    ruleStyles,       \* _styles of a scope whose parent is the base scope
    otherProps,       \* the layer's styles handed to getScopeWarnings
    missing,          \* result of findMissingProperties
    different,        \* result of diffIntersectingCssProperties
    warned,           \* TRUE once getScopeWarnings has run
    \* ---- Fetch of the design document (src/src/workspacestate.ts)
    serverModified,   \* lastModified of the document on the server
    requests,         \* ids of the fetches the server has not answered yet
    responses,        \* answers on their way: [id, lastModified]
    figmaFile,        \* lastModified of the cached FigmaFile, or NoFile
    sidebarFile,      \* lastModified of the file the sidebar provider was built from
    sidebarLoads,     \* number of loadSidebar calls
    statusBar,        \* WorkspaceState.statusBar: [text, command, visible]
    settled,          \* the fetches whose handler has run: [id, outcome, lastModified]
    lastHandler,      \* the step taken last, with the cache it found
    \* ---- Reload of the stylesheet (src/unnamed/part_010, src/src/stylesheet.ts)
    previousTree,     \* scope tree of the last parse that completed before the reload
    observed,         \* what the last reader of the current stylesheet got
    \* ---- Links (src/src/workspacestate.ts, src/src/storage.ts)
    fileLinks,        \* FileStorage.links of the stylesheet file: [layer id, scope id] pairs
    treeItems,        \* sidebarProvider.treeItems: key -> the layer held under it
    builtLayers,      \* the layers the provider built for the nodes, in the order it built them
    lastAdd,          \* the pair of the last addLink call, with the links stored before
    \* ---- Styles of a design node (src/src/util/figma-util.ts)
    cssNode,          \* the design node: ordered [prop, value] attributes
    cssResult,        \* what FigmaUtil.GetCssProperties(cssNode) gave: a map, or a TypeError
    \* ---- Range of a rule's selector (src/src/stylesheet.ts, calculateRange)
    docText,          \* the editor's document: a sequence of characters, lines ended by a newline
    ruleStart,        \* node.source.start of a rule as a vscode.Position: [line, character]
    ruleRange,        \* what calculateRange gave for the rule
    \* ---- FileState.fetchAPIData (src/src/filestate.ts)
    storedFileKey,    \* FileState.storage.fileKey, or "undefined"
    fileRequests,     \* fetches api.figma.com has not answered yet: [id, key]
    fileResponses,    \* answers on their way: [id, documentId, lastModified]
    cachedFile,       \* FileState.storage.components: [key, lastModified], or NoCachedFile
    fileStatusBar,    \* FileState.statusBar: [text, command, visible]
    fileSettled       \* the fetches whose handler has run: [id, outcome, documentId]

cbVars == <<parsePromise, parsedCallbacks, invoked, registered, nextId>>
layerVars == <<doc, prunedChildren, prunedParent, layerStyles>>
sortVars == <<components, sortedArray, sortCalled>>
scopeVars == <<text, scopes, parsed>>
diffVars == <<baseStyles, ruleStyles, otherProps, missing, different, warned>>
fetchVars == <<serverModified, requests, responses, figmaFile, sidebarFile,
               sidebarLoads, statusBar, settled, lastHandler>>
reloadVars == <<previousTree, observed>>
linkVars == <<fileLinks, treeItems, builtLayers, lastAdd>>
cssVars == <<cssNode, cssResult>>
rangeVars == <<docText, ruleStart, ruleRange>>
fileVars == <<storedFileKey, fileRequests, fileResponses, cachedFile, fileStatusBar, fileSettled>>

vars == <<parsePromise, parsedCallbacks, invoked, registered, nextId,
          doc, prunedChildren, prunedParent, layerStyles,
          components, sortedArray, sortCalled,
          text, scopes, parsed,
          baseStyles, ruleStyles, otherProps, missing, different, warned,
          serverModified, requests, responses, figmaFile, sidebarFile,
          sidebarLoads, statusBar, settled, lastHandler,
          previousTree, observed, fileLinks, treeItems, builtLayers, lastAdd,
          cssNode, cssResult,
          docText, ruleStart, ruleRange,
          storedFileKey, fileRequests, fileResponses, cachedFile, fileStatusBar, fileSettled>>

otherThanCallbacks == <<layerVars, sortVars, scopeVars, diffVars, fetchVars, reloadVars, linkVars, cssVars, rangeVars, fileVars>>
otherThanLayers == <<cbVars, sortVars, scopeVars, diffVars, fetchVars, reloadVars, linkVars, cssVars, rangeVars, fileVars>>
otherThanSort == <<cbVars, layerVars, scopeVars, diffVars, fetchVars, reloadVars, linkVars, cssVars, rangeVars, fileVars>>
otherThanScopes == <<cbVars, layerVars, sortVars, diffVars, fetchVars, reloadVars, linkVars, cssVars, rangeVars, fileVars>>
otherThanDiff == <<cbVars, layerVars, sortVars, scopeVars, fetchVars, reloadVars, linkVars, cssVars, rangeVars, fileVars>>
otherThanFetch == <<cbVars, layerVars, sortVars, scopeVars, diffVars, reloadVars, linkVars, cssVars, rangeVars, fileVars>>
otherThanReload == <<cbVars, layerVars, sortVars, diffVars, fetchVars, linkVars, cssVars, rangeVars, fileVars>>
otherThanLinks == <<cbVars, layerVars, sortVars, diffVars, fetchVars, reloadVars, cssVars, rangeVars, fileVars>>
otherThanCss == <<cbVars, layerVars, sortVars, scopeVars, diffVars, fetchVars, reloadVars, linkVars, rangeVars, fileVars>>
otherThanRange == <<cbVars, layerVars, sortVars, scopeVars, diffVars, fetchVars, reloadVars, linkVars, cssVars, fileVars>>
otherThanFile == <<cbVars, layerVars, sortVars, scopeVars, diffVars, fetchVars, reloadVars, linkVars, cssVars, rangeVars>>

\* Values of the variables of a part of the program that a specification
\* does not exercise
IdleCallbacks ==
    /\ parsePromise = "undefined"
    /\ parsedCallbacks = <<>>
    /\ invoked = <<>>
    /\ registered = <<>>
    /\ nextId = 1

IdleLayers ==
    /\ doc = <<>>
    /\ prunedChildren = <<>>
    /\ prunedParent = <<>>
    /\ layerStyles = <<>>

IdleSort ==
    /\ components = <<>>
    /\ sortedArray = <<>>
    /\ sortCalled = FALSE

IdleScopes ==
    /\ text = <<>>
    /\ scopes = <<>>
    /\ parsed = FALSE

IdleDiff ==
    /\ baseStyles = <<>>
    /\ ruleStyles = <<>>
    /\ otherProps = <<>>
    /\ missing = <<>>
    /\ different = <<>>
    /\ warned = FALSE

IdleFetch ==
    /\ serverModified = 0
    /\ requests = {}
    /\ responses = {}
    /\ figmaFile = 0
    /\ sidebarFile = 0
    /\ sidebarLoads = 0
    /\ statusBar = [text |-> "", command |-> "", visible |-> FALSE]
    /\ settled = {}
    /\ lastHandler = [kind |-> "none"]

IdleReload ==
    /\ previousTree = <<>>
    /\ observed = [kind |-> "none"]

IdleLinks ==
    /\ fileLinks = <<>>
    /\ treeItems = <<>>
    /\ builtLayers = <<>>
    /\ lastAdd = [kind |-> "none"]

IdleCss ==
    /\ cssNode = <<>>
    /\ cssResult = [kind |-> "none"]

IdleRange ==
    /\ docText = <<>>
    /\ ruleStart = [line |-> 0, character |-> 0]
    /\ ruleRange = [kind |-> "none"]

IdleFile ==
    /\ storedFileKey = "undefined"
    /\ fileRequests = {}
    /\ fileResponses = {}
    /\ cachedFile = [kind |-> "none"]
    /\ fileStatusBar = [text |-> "", command |-> "", visible |-> FALSE]
    /\ fileSettled = {}

\* ------------------------------------------------------------------------
\* Generic helpers
\* ------------------------------------------------------------------------
Range(s) == {s[i] : i \in 1..Len(s)}

RECURSIVE SelectIn(_, _)
\* the subsequence of s made of its members of set S
SelectIn(s, S) ==
    IF s = <<>> THEN <<>>
    ELSE IF Head(s) \in S THEN <<Head(s)>> \o SelectIn(Tail(s), S)
         ELSE SelectIn(Tail(s), S)

\* ------------------------------------------------------------------------
\* Stylesheet: parseFile / runCallbacks / addParsedFileCallback
\* ------------------------------------------------------------------------
MaxCallbacks == 4

\* A registered function either does nothing to the stylesheet ("plain") or
\* calls addParsedFileCallback itself when it runs ("nested").
Kinds == {"plain", "nested"}

\* Array.prototype.forEach over parsedCallbacks: the visited range 1..n is
\* fixed when the loop starts; each fn() may push onto the array (a nested
\* registration finds parsePromise still set).  st = [cbs, log, reg, id].
RECURSIVE ForEachCallback(_, _, _)
ForEachCallback(i, n, st) ==
    IF i > n THEN st
    ELSE LET fn == st.cbs[i]
             ran == [st EXCEPT !.log = Append(@, fn.id)]
         IN  IF fn.kind = "nested"
             THEN ForEachCallback(i + 1, n,
                    [ran EXCEPT !.cbs = Append(@, [id |-> st.id, kind |-> "plain"]),
                                !.reg = Append(@, [id |-> st.id, phase |-> "running"]),
                                !.id  = @ + 1])
             ELSE ForEachCallback(i + 1, n, ran)

\* runCallbacks with an off-by-one loop bound: the last function is not called
runCallbacksSkipLast ==
    LET n  == Len(parsedCallbacks)
        st == ForEachCallback(1, IF n > 0 THEN n - 1 ELSE 0,
                 [cbs |-> parsedCallbacks, log |-> invoked,
                  reg |-> registered, id |-> nextId])
    IN  /\ invoked' = st.log
        /\ registered' = st.reg
        /\ nextId' = st.id
        /\ parsePromise' = "undefined"
        /\ parsedCallbacks' = <<>>

\* Stylesheet.runCallbacks
runCallbacks ==
    LET st == ForEachCallback(1, Len(parsedCallbacks),
                 [cbs |-> parsedCallbacks, log |-> invoked,
                  reg |-> registered, id |-> nextId])
    IN  /\ invoked' = st.log
        /\ registered' = st.reg
        /\ nextId' = st.id
        /\ parsePromise' = "undefined"
        /\ parsedCallbacks' = <<>>

\* Stylesheet.parseFile, the then-handler: the delegated parse succeeded
ParseFulfilled ==
    /\ parsePromise = "pending"
    /\ runCallbacks
    /\ UNCHANGED otherThanCallbacks

\* Stylesheet.parseFile, the catch-handler: the delegated parse was rejected.
\* Only a warning is logged; the field parsePromise keeps the promise.
ParseRejected ==
    /\ parsePromise = "pending"
    /\ parsePromise' = "rejected"
    /\ UNCHANGED <<parsedCallbacks, invoked, registered, nextId>>
    /\ UNCHANGED otherThanCallbacks

\* addParsedFileCallback that queues the function whatever parsePromise holds
addParsedFileCallbackAlwaysQueue(kind) ==
    /\ nextId <= MaxCallbacks
    /\ parsedCallbacks' = Append(parsedCallbacks, [id |-> nextId, kind |-> kind])
    /\ registered' = Append(registered, [id |-> nextId, phase |-> parsePromise])
    /\ nextId' = nextId + 1
    /\ UNCHANGED <<parsePromise, invoked>>
    /\ UNCHANGED otherThanCallbacks

\* Stylesheet.addParsedFileCallback(fn)
addParsedFileCallback(kind) ==
    /\ nextId <= MaxCallbacks
    /\ IF parsePromise = "undefined"
       THEN \* no pending parsing: fn() runs now; a nested registration made
            \* by fn finds no pending parsing either and runs now as well
            /\ invoked' = IF kind = "nested"
                          THEN invoked \o <<nextId, nextId + 1>>
                          ELSE Append(invoked, nextId)
            /\ registered' = IF kind = "nested"
                             THEN registered \o <<[id |-> nextId, phase |-> "idle"],
                                                  [id |-> nextId + 1, phase |-> "idle"]>>
                             ELSE Append(registered, [id |-> nextId, phase |-> "idle"])
            /\ nextId' = IF kind = "nested" THEN nextId + 2 ELSE nextId + 1
            /\ UNCHANGED <<parsePromise, parsedCallbacks>>
       ELSE /\ parsedCallbacks' = Append(parsedCallbacks, [id |-> nextId, kind |-> kind])
            /\ registered' = Append(registered, [id |-> nextId, phase |-> parsePromise])
            /\ nextId' = nextId + 1
            /\ UNCHANGED <<parsePromise, invoked>>
    /\ UNCHANGED otherThanCallbacks

Register == \E kind \in Kinds : addParsedFileCallback(kind)

\* Stylesheet.constructor: fields initialised, parseFile() called
InitCallbacks ==
    /\ parsePromise = "pending"
    /\ parsedCallbacks = <<>>
    /\ invoked = <<>>
    /\ registered = <<>>
    /\ nextId = 1
    /\ IdleLayers
    /\ IdleSort
    /\ IdleScopes
    /\ IdleDiff
    /\ IdleFetch
    /\ IdleReload
    /\ IdleLinks
    /\ IdleCss
    /\ IdleRange
    /\ IdleFile

NextCallbacks == Register \/ ParseFulfilled \/ ParseRejected

SpecCallbacks == InitCallbacks /\ [][NextCallbacks]_vars

\* ids of the functions registered in a given phase, in registration order
RECURSIVE IdsOfPhase(_, _)
IdsOfPhase(reg, phases) ==
    IF reg = <<>> THEN <<>>
    ELSE IF Head(reg).phase \in phases
         THEN <<Head(reg).id>> \o IdsOfPhase(Tail(reg), phases)
         ELSE IdsOfPhase(Tail(reg), phases)

C2_SettledRunsAll ==
    parsePromise # "pending" =>
        /\ \A id \in Range(IdsOfPhase(registered, {"pending", "rejected", "idle"})) :
              id \in Range(invoked)
        /\ parsedCallbacks = <<>>

\* how many times a function was invoked
TimesInvoked(log, id) == Cardinality({i \in 1..Len(log) : log[i] = id})

\* C22: when addParsedFileCallback is called while no parse is pending (the
\* last parse has completed), the function is invoked exactly once before the
\* call returns, and it is not added to the pending list.
C22_NoPendingRunsNow ==
    [][(parsePromise = "undefined" /\ nextId' > nextId)
          => /\ TimesInvoked(invoked', nextId) = 1
             /\ TimesInvoked(invoked, nextId) = 0
             /\ parsedCallbacks' = parsedCallbacks
             /\ parsedCallbacks' = <<>>]_vars

\* C22 witness: a function registered after the parse completed has run
C22_Witness ==
    /\ parsePromise = "undefined"
    /\ \E i \in 1..Len(registered) :
          /\ registered[i].phase = "idle"
          /\ TimesInvoked(invoked, registered[i].id) = 1
    /\ parsedCallbacks = <<>>

\* C27: a function registered from inside a running function (while
\* runCallbacks walks the pending list) is invoked exactly once: it is not
\* discarded when the list is reset and it does not stay queued.
C27_NestedRunsOnce ==
    \A id \in Range(IdsOfPhase(registered, {"running"})) :
        /\ TimesInvoked(invoked, id) = 1
        /\ \A i \in 1..Len(parsedCallbacks) : parsedCallbacks[i].id # id

\* ------------------------------------------------------------------------
\* FigmaLayer: children, isUnecessaryLayer, getPrunedChildren, styles
\* ------------------------------------------------------------------------
MaxNodes == 4

EmptyStyle == <<>>

\* CssProperties a node's own attributes can give (FigmaLayer._styles)
OwnStyles == {EmptyStyle,
              [p \in {"color"} |-> "red"],
              [p \in {"color"} |-> "blue"],
              [p \in {"font-size"} |-> "12px"]}

\* node types that matter to the layer code
ChildTypes == {"FRAME", "COMPONENT"}

Layers == DOMAIN doc

RECURSIVE SeqOfSet(_)
\* the members of a set of node ids in document order (ascending id)
SeqOfSet(S) ==
    IF S = {} THEN <<>>
    ELSE LET m == CHOOSE x \in S : \A y \in S : x <= y
         IN  <<m>> \o SeqOfSet(S \ {m})

\* getter FigmaLayer.children: one layer per entry of node.children
children(l) == SeqOfSet({c \in Layers : doc[c].parent = l})

\* getter FigmaLayer.siblingCount
siblingCount(l) ==
    IF doc[l].parent # 0 THEN Len(children(doc[l].parent)) - 1 ELSE 0

\* getter FigmaLayer.hasOwnStyles
hasOwnStyles(l) == DOMAIN doc[l].styles # {}

RECURSIVE isWithinComponent(_)
\* getter FigmaLayer.isWithinComponent
isWithinComponent(l) ==
    IF doc[l].parent # 0
    THEN IF doc[doc[l].parent].type = "COMPONENT"
         THEN TRUE
         ELSE isWithinComponent(doc[l].parent)
    ELSE FALSE

\* isUnecessaryLayer without the test of the enclosing component
isUnecessaryLayerAnywhere(l) ==
    /\ ~hasOwnStyles(l)
    /\ (siblingCount(l) = 0 \/ Len(children(l)) = 1)

\* getter FigmaLayer.isUnecessaryLayer
isUnecessaryLayer(l) ==
    /\ isWithinComponent(l)
    /\ ~hasOwnStyles(l)
    /\ (siblingCount(l) = 0 \/ Len(children(l)) = 1)

\* Array.prototype.splice(i, 1, ...items), 1-based
Splice(arr, i, items) ==
    SubSeq(arr, 1, i - 1) \o items \o SubSeq(arr, i + 1, Len(arr))

RECURSIVE getPrunedChildren(_), PruneLoop(_, _)
\* the while loop of getPrunedChildren; i is the 1-based index (i >= 1 is
\* the source's i >= 0)
PruneLoop(arr, i) ==
    IF i < 1 THEN arr
    ELSE LET child == arr[i]
         IN  IF isUnecessaryLayer(child)
             THEN LET grandChildren == getPrunedChildren(child)
                  IN  PruneLoop(Splice(arr, i, grandChildren),
                                i + Len(grandChildren) - 1)
             ELSE PruneLoop(arr, i - 1)

\* FigmaLayer.getPrunedChildren
getPrunedChildren(l) ==
    LET kids == children(l)
    IN  IF Len(kids) > 0 THEN PruneLoop(kids, Len(kids)) ELSE kids

\* getPrunedParent stopping at the direct parent, unnecessary or not
getPrunedParentDirect(l) == doc[l].parent

RECURSIVE getPrunedParent(_)
\* FigmaLayer.getPrunedParent: the first ancestor that is not unnecessary;
\* 0 stands for undefined (no parent to return)
getPrunedParent(l) ==
    IF doc[l].parent # 0
    THEN IF isUnecessaryLayer(doc[l].parent)
         THEN getPrunedParent(doc[l].parent)
         ELSE doc[l].parent
    ELSE 0

\* right-biased merge of two property maps ({...a, ...b})
Merge(a, b) ==
    [p \in DOMAIN a \cup DOMAIN b |-> IF p \in DOMAIN b THEN b[p] ELSE a[p]]

RECURSIVE styles(_), StylesLoop(_, _, _)
\* the for loop of the getter styles over the pruned children: acc is the
\* local `styles`; a property already present with another value ends the
\* getter with {}
StylesLoop(kids, i, acc) ==
    IF i > Len(kids) THEN acc
    ELSE LET childStyles == styles(kids[i])
         IN  IF \E childProp \in DOMAIN childStyles :
                    /\ childProp \in DOMAIN acc
                    /\ childStyles[childProp] # acc[childProp]
             THEN EmptyStyle
             ELSE StylesLoop(kids, i + 1, Merge(acc, childStyles))

\* the getter styles with the conflict test dropped: the later child wins
stylesLastChildWins(l) ==
    LET RECURSIVE Over(_, _, _)
        Over(kids, i, acc) ==
            IF i > Len(kids) THEN acc
            ELSE Over(kids, i + 1, Merge(acc, styles(kids[i])))
    IN  IF doc[l].type = "DOCUMENT" THEN EmptyStyle
        ELSE IF DOMAIN doc[l].styles # {} THEN doc[l].styles
        ELSE Over(getPrunedChildren(l), 1, EmptyStyle)

\* getter FigmaLayer.styles
styles(l) ==
    IF doc[l].type = "DOCUMENT" THEN EmptyStyle
    ELSE IF DOMAIN doc[l].styles # {} THEN doc[l].styles
    ELSE StylesLoop(getPrunedChildren(l), 1, EmptyStyle)

\* A node is added to the document before it is fetched.  Nodes are numbered
\* in breadth-first order, so every ordered tree has exactly one numbering.
AddNode(parent, type, own) ==
    /\ doc # <<>>
    /\ layerStyles = <<>>
    /\ Len(doc) < MaxNodes
    /\ parent >= doc[Len(doc)].parent
    /\ doc' = Append(doc, [type |-> type, parent |-> parent, styles |-> own])
    /\ UNCHANGED <<prunedChildren, prunedParent, layerStyles>>
    /\ UNCHANGED otherThanLayers

\* The tree view asks every layer for its pruned children, its pruned
\* parent and its styles (FigmaLayerProvider.getChildren, getParent,
\* LayerTreeItem)
RenderLayers ==
    /\ doc # <<>>
    /\ layerStyles = <<>>
    /\ prunedChildren' = [l \in Layers |-> getPrunedChildren(l)]
    /\ prunedParent' = [l \in Layers |-> getPrunedParent(l)]
    /\ layerStyles' = [l \in Layers |-> styles(l)]
    /\ UNCHANGED doc
    /\ UNCHANGED otherThanLayers

\* The root is the document node FigmaFile builds (no attribute that gives a
\* style) or a component
InitLayers ==
    /\ \E type \in {"DOCUMENT", "COMPONENT"} :
       \E own \in OwnStyles :
          /\ type = "DOCUMENT" => own = EmptyStyle
          /\ doc = <<[type |-> type, parent |-> 0, styles |-> own]>>
    /\ prunedChildren = <<>>
    /\ prunedParent = <<>>
    /\ layerStyles = <<>>
    /\ IdleCallbacks
    /\ IdleSort
    /\ IdleScopes
    /\ IdleDiff
    /\ IdleFetch
    /\ IdleReload
    /\ IdleLinks
    /\ IdleCss
    /\ IdleRange
    /\ IdleFile

NextLayers ==
    \/ \E parent \in 1..MaxNodes : \E type \in ChildTypes : \E own \in OwnStyles :
          parent <= Len(doc) /\ AddNode(parent, type, own)
    \/ RenderLayers

SpecLayers == InitLayers /\ [][NextLayers]_vars

\* ---- claims about the layer tree -----------------------------------------
Rendered == layerStyles # <<>>

\* two of the layers of kids give one property name two values
ConflictAmong(kids) ==
    \E i, j \in 1..Len(kids) :
       \E p \in DOMAIN layerStyles[kids[i]] \cap DOMAIN layerStyles[kids[j]] :
          layerStyles[kids[i]][p] # layerStyles[kids[j]][p]

\* the union of the derived styles of the layers of kids
UnionOf(kids) ==
    [p \in UNION {DOMAIN layerStyles[kids[i]] : i \in 1..Len(kids)} |->
        LET i == CHOOSE i \in 1..Len(kids) : p \in DOMAIN layerStyles[kids[i]]
        IN  layerStyles[kids[i]][p]]

\* what the claim gives as the derived style of a layer
DerivedStyleOf(l) ==
    IF hasOwnStyles(l) THEN doc[l].styles
    ELSE IF ConflictAmong(prunedChildren[l]) THEN EmptyStyle
    ELSE UnionOf(prunedChildren[l])

\* C3 as stated: for every layer, the derived style is the own style when
\* that is non-empty, else the union of the pruned children's derived styles
\* when they do not conflict, else the empty map.
C3_DerivedStyleEveryLayer ==
    Rendered => \A l \in Layers : layerStyles[l] = DerivedStyleOf(l)

\* C3 amended: the same for every layer that is not the DOCUMENT layer; the
\* derived style of the DOCUMENT layer is always the empty map.
C3_DerivedStyleExceptDocument ==
    Rendered =>
        \A l \in Layers :
            layerStyles[l] = IF doc[l].type = "DOCUMENT" THEN EmptyStyle
                             ELSE DerivedStyleOf(l)

\* C3 witness: a layer without own style got the union of two properties
\* from its pruned children, and the DOCUMENT layer has styled children
C3_Witness ==
    /\ Rendered
    /\ \E l \in Layers :
          /\ ~hasOwnStyles(l)
          /\ doc[l].type # "DOCUMENT"
          /\ Cardinality(DOMAIN layerStyles[l]) = 2
    /\ \E d \in Layers :
          /\ doc[d].type = "DOCUMENT"
          /\ ~ConflictAmong(prunedChildren[d])
          /\ DOMAIN UnionOf(prunedChildren[d]) # {}

\* C4 as stated: for every layer whose pruned children conflict on a
\* property, the derived style is the empty map.
C4_ConflictGivesEmpty ==
    Rendered =>
        \A l \in Layers :
            ConflictAmong(prunedChildren[l]) => layerStyles[l] = EmptyStyle

\* C4 amended: for every layer that has no own style and whose pruned
\* children conflict on a property, the derived style is the empty map.
C4_ConflictGivesEmptyWithoutOwnStyle ==
    Rendered =>
        \A l \in Layers :
            (~hasOwnStyles(l) /\ ConflictAmong(prunedChildren[l]))
                => layerStyles[l] = EmptyStyle

\* C4 witness: a layer without own style, not the DOCUMENT layer, whose
\* pruned children conflict, one of them reached through a pruned wrapper
C4_Witness ==
    /\ Rendered
    /\ \E l \in Layers :
          /\ ~hasOwnStyles(l)
          /\ doc[l].type # "DOCUMENT"
          /\ ConflictAmong(prunedChildren[l])
          /\ prunedChildren[l] # children(l)
          /\ layerStyles[l] = EmptyStyle

\* the claim's unnecessary layer: below a component, no own style, and no
\* sibling or exactly one child
UnnecessarySpec(c) ==
    /\ \E a \in Layers : a # c /\ doc[a].type = "COMPONENT" /\
          LET RECURSIVE IsAncestor(_, _)
              IsAncestor(x, y) ==
                  IF doc[y].parent = 0 THEN FALSE
                  ELSE doc[y].parent = x \/ IsAncestor(x, doc[y].parent)
          IN  IsAncestor(a, c)
    /\ DOMAIN doc[c].styles = {}
    /\ \/ Cardinality({s \in Layers : doc[s].parent = doc[c].parent}) = 1
       \/ Cardinality({k \in Layers : doc[k].parent = c}) = 1

RECURSIVE PrunedSpec(_), FlattenSpec(_)
\* every unnecessary member of kids replaced, in place, by its pruned children
FlattenSpec(kids) ==
    IF kids = <<>> THEN <<>>
    ELSE (IF UnnecessarySpec(Head(kids)) THEN PrunedSpec(Head(kids))
          ELSE <<Head(kids)>>) \o FlattenSpec(Tail(kids))

PrunedSpec(l) == FlattenSpec(SeqOfSet({c \in Layers : doc[c].parent = l}))

\* C5: getPrunedChildren returns the children with every unnecessary child
\* replaced in place and in order by its own pruned children, recursively,
\* and the returned list holds no unnecessary layer.
C5_PrunedChildrenFlatten ==
    Rendered =>
        \A l \in Layers :
            /\ prunedChildren[l] = PrunedSpec(l)
            /\ \A i \in 1..Len(prunedChildren[l]) :
                  ~UnnecessarySpec(prunedChildren[l][i])

\* C5 witness: an unnecessary child between two kept children was replaced
\* by a grandchild, in place
C5_Witness ==
    /\ Rendered
    /\ \E l \in Layers :
          /\ Len(children(l)) >= 2
          /\ prunedChildren[l] # children(l)
          /\ Len(prunedChildren[l]) >= 2
          /\ \E i \in 1..Len(prunedChildren[l]) :
                doc[prunedChildren[l][i]].parent # l

\* ------------------------------------------------------------------------
\* FigmaUtil.sortByDependency
\* ------------------------------------------------------------------------
\* most INSTANCE nodes in the components given to the sort
MaxInstances == 4

\* ids of the component nodes of the document
ComponentIds == {"1:1", "1:2", "1:3"}

\* what the componentId of an instance can be: a component of the document
\* or a component that is not part of it (another file, deleted)
InstanceTargets == ComponentIds \cup {"0:9"}

RECURSIVE getAllChildren(_, _), getAllChildrenOfList(_, _)
\* FigmaUtil.getAllChildren with condition node.type === type: the matching
\* descendants in depth-first order, a node before its own descendants
getAllChildrenOfList(kids, type) ==
    IF kids = <<>> THEN <<>>
    ELSE (IF Head(kids).type = type THEN <<Head(kids)>> ELSE <<>>)
         \o getAllChildren(Head(kids), type)
         \o getAllChildrenOfList(Tail(kids), type)

getAllChildren(rootNode, type) == getAllChildrenOfList(rootNode.children, type)

\* FigmaUtil.getAllChildrenByType
getAllChildrenByType(rootNode, type) == getAllChildren(rootNode, type)

\* instances.map(instance => instance.componentId)
InstanceIds(instances) == [i \in 1..Len(instances) |-> instances[i].componentId]

\* dependencyMatrix[id] = deps on an object kept as the sequence of its
\* [id, deps] entries in key order (a new key goes last, an old one keeps
\* its place)
PutKey(matrix, id, deps) ==
    IF \E i \in 1..Len(matrix) : matrix[i].id = id
    THEN [i \in 1..Len(matrix) |->
            IF matrix[i].id = id THEN [id |-> id, deps |-> deps] ELSE matrix[i]]
    ELSE Append(matrix, [id |-> id, deps |-> deps])

RECURSIVE BuildMatrix(_, _)
\* the first forEach of sortByDependency
BuildMatrix(comps, matrix) ==
    IF comps = <<>> THEN matrix
    ELSE BuildMatrix(Tail(comps),
            PutKey(matrix, Head(comps).id,
                   InstanceIds(getAllChildrenByType(Head(comps), "INSTANCE"))))

\* componentsMap[id]: the last component stored under the id
ComponentOf(comps, id) ==
    comps[CHOOSE i \in 1..Len(comps) :
            /\ comps[i].id = id
            /\ \A j \in (i + 1)..Len(comps) : comps[j].id # id]

\* the reduce with || for &&: one resolved dependency is enough
anyDependencyInSortedArray(deps, sortedIds) ==
    \E k \in 1..Len(deps) : deps[k] \in Range(sortedIds)

\* dependencies.reduce((acc, curr) => acc && sortedIds.includes(curr), true)
areAllDependenciesInSortedArray(deps, sortedIds) ==
    \A k \in 1..Len(deps) : deps[k] \in Range(sortedIds)

RECURSIVE ForIn(_, _, _)
\* for (let id in dependencyMatrix) over the keys present when the pass
\* starts; st = [sorted, ids, matrix]; the entry of a moved component is
\* deleted
ForIn(keys, comps, st) ==
    IF keys = <<>> THEN st
    ELSE LET id   == Head(keys)
             deps == (CHOOSE e \in Range(st.matrix) : e.id = id).deps
         IN  IF Len(deps) = 0 \/ areAllDependenciesInSortedArray(deps, st.ids)
             THEN ForIn(Tail(keys), comps,
                    [sorted |-> Append(st.sorted, ComponentOf(comps, id)),
                     ids    |-> Append(st.ids, id),
                     matrix |-> SelectSeq(st.matrix, LAMBDA e : e.id # id)])
             ELSE ForIn(Tail(keys), comps, st)

\* a while loop that gives up after its first pass
WhileLoopOnePass(comps, orderedLength, st) ==
    IF Len(st.sorted) < Len(comps) /\ orderedLength # Len(st.sorted)
    THEN ForIn([i \in 1..Len(st.matrix) |-> st.matrix[i].id], comps, st)
    ELSE st

RECURSIVE WhileLoop(_, _, _)
\* while(sortedArray.length < components.length &&
\*       orderedLength !== sortedArray.length)
WhileLoop(comps, orderedLength, st) ==
    IF Len(st.sorted) < Len(comps) /\ orderedLength # Len(st.sorted)
    THEN WhileLoop(comps, Len(st.sorted),
            ForIn([i \in 1..Len(st.matrix) |-> st.matrix[i].id], comps, st))
    ELSE st

\* FigmaUtil.sortByDependency
sortByDependency(comps) ==
    WhileLoop(comps, -1,
        [sorted |-> <<>>, ids |-> <<>>, matrix |-> BuildMatrix(comps, <<>>)]).sorted

\* an INSTANCE node of component cid
InstanceNode(cid) == [type |-> "INSTANCE", componentId |-> cid, children |-> <<>>]

\* a FRAME node around the nodes kids
FrameNode(kids) == [type |-> "FRAME", componentId |-> "", children |-> kids]

\* The document gets one more component (ids are unique in a document)
AddComponent(id) ==
    /\ ~sortCalled
    /\ \A i \in 1..Len(components) : components[i].id # id
    /\ components' = Append(components,
          [type |-> "COMPONENT", id |-> id, componentId |-> "", children |-> <<>>])
    /\ UNCHANGED <<sortedArray, sortCalled>>
    /\ UNCHANGED otherThanSort

RECURSIVE CountInstances(_)
\* the number of INSTANCE nodes in a list of components
CountInstances(comps) ==
    IF comps = <<>> THEN 0
    ELSE Len(getAllChildrenByType(Head(comps), "INSTANCE")) + CountInstances(Tail(comps))

\* A component gets one more instance: its first one as a direct child, the
\* later ones inside a frame
AddInstance(i, cid) ==
    /\ ~sortCalled
    /\ i \in 1..Len(components)
    /\ CountInstances(components) < MaxInstances
    /\ components' = [components EXCEPT ![i].children =
          Append(@, IF @ = <<>> THEN InstanceNode(cid)
                    ELSE FrameNode(<<InstanceNode(cid)>>))]
    /\ UNCHANGED <<sortedArray, sortCalled>>
    /\ UNCHANGED otherThanSort

\* the call FigmaUtil.sortByDependency(components)
SortByDependency ==
    /\ ~sortCalled
    /\ sortedArray' = sortByDependency(components)
    /\ sortCalled' = TRUE
    /\ UNCHANGED components
    /\ UNCHANGED otherThanSort

InitSort ==
    /\ components = <<>>
    /\ sortedArray = <<>>
    /\ sortCalled = FALSE
    /\ IdleCallbacks
    /\ IdleLayers
    /\ IdleScopes
    /\ IdleDiff
    /\ IdleFetch
    /\ IdleReload
    /\ IdleLinks
    /\ IdleCss
    /\ IdleRange
    /\ IdleFile

NextSort ==
    \/ \E id \in ComponentIds : AddComponent(id)
    \/ \E i \in 1..Cardinality(ComponentIds) : \E cid \in InstanceTargets : AddInstance(i, cid)
    \/ SortByDependency

SpecSort == InitSort /\ [][NextSort]_vars

\* ---- claims about sortByDependency ---------------------------------------
RECURSIVE InstanceIdSet(_)
\* the componentId of every INSTANCE node below a node
InstanceIdSet(node) ==
    UNION {(IF node.children[k].type = "INSTANCE"
            THEN {node.children[k].componentId} ELSE {})
           \cup InstanceIdSet(node.children[k]) : k \in 1..Len(node.children)}

InputIds == {components[i].id : i \in 1..Len(components)}

\* the ids a component instantiates directly; none for an id not in the input
DirectDeps(id) ==
    UNION {InstanceIdSet(components[i]) : i \in {j \in 1..Len(components) : components[j].id = id}}

RECURSIVE ReachFrom(_, _)
\* the ids reached from the set front by one or more dependency steps,
\* seen being those already found
ReachFrom(front, seen) ==
    LET next == UNION {DirectDeps(id) : id \in front} \ seen
    IN  IF next = {} THEN seen ELSE ReachFrom(next, seen \cup next)

\* direct and transitive dependencies of id
Dependencies(id) == ReachFrom({id}, {})

OnCycle(id) == id \in Dependencies(id)

\* every direct or transitive dependency is in the input and on no cycle
Resolvable(id) ==
    \A d \in Dependencies(id) : d \in InputIds /\ ~OnCycle(d)

\* C6: in the returned list every component comes after every component it
\* instantiates: each componentId of its INSTANCE descendants is the id of a
\* component at a strictly earlier position.
C6_DependenciesFirst ==
    sortCalled =>
        \A k \in 1..Len(sortedArray) :
            \A d \in InstanceIdSet(sortedArray[k]) :
                \E j \in 1..(k - 1) : sortedArray[j].id = d

\* C6 witness: a returned component with two dependencies, given to the
\* sort before both of them
C6_Witness ==
    /\ sortCalled
    /\ Len(sortedArray) = 3
    /\ Cardinality(InstanceIdSet(components[1])) = 2
    /\ sortedArray[3] = components[1]

\* C7: the sort returns, and what it returns holds exactly once each input
\* component whose direct and transitive dependencies are all input
\* components on no dependency cycle, and no other component.
C7_ExactlyTheResolvable ==
    sortCalled =>
        /\ \A i \in 1..Len(components) :
              Resolvable(components[i].id) <=>
                 Cardinality({k \in 1..Len(sortedArray) : sortedArray[k] = components[i]}) = 1
        /\ \A k \in 1..Len(sortedArray) :
              /\ \E i \in 1..Len(components) : sortedArray[k] = components[i]
              /\ \A j \in 1..Len(sortedArray) :
                    sortedArray[j].id = sortedArray[k].id => j = k

\* C7 witness: one component kept, one dropped for a missing dependency and
\* one dropped for a cycle through itself
C7_Witness ==
    /\ sortCalled
    /\ Len(components) = 3
    /\ Len(sortedArray) = 1
    /\ \E i \in 1..3 : \E d \in Dependencies(components[i].id) : d \notin InputIds
    /\ \E i \in 1..3 : OnCycle(components[i].id)

\* ------------------------------------------------------------------------
\* Stylesheet.createStyleSheetScopes and StylesheetScope
\* ------------------------------------------------------------------------
\* most nodes (variables, declarations, rules) in the parsed text
MaxStyleNodes == 4

\* Strings are sequences of characters; a selector is a sequence of the
\* characters and name tokens it is written with.

\* the characters of the class [\w-_] of varNameRegex
VarChars == {"v", "w", "1", "2", "9", "-", "_"}

\* globalRules: rules that count as global scope
globalRules == {<<"body">>, <<"html">>, <<"*">>, <<":root">>}

\* String.prototype.indexOf, 1-based; 0 when pat does not occur
IndexOf(s, pat) ==
    LET at == {i \in 1..(Len(s) - Len(pat) + 1) : SubSeq(s, i, i + Len(pat) - 1) = pat}
    IN  IF at = {} THEN 0 ELSE CHOOSE i \in at : \A j \in at : i <= j

\* String.prototype.includes
includes(s, pat) == IndexOf(s, pat) # 0

RECURSIVE GetSubstitution(_, _)
\* The replacement text String.prototype.replace inserts for a string
\* replacement: `$$` stands for `$` and `$&` for the matched substring
GetSubstitution(matched, rep) ==
    IF rep = <<>> THEN <<>>
    ELSE IF Len(rep) >= 2 /\ rep[1] = "$" /\ rep[2] = "$"
         THEN <<"$">> \o GetSubstitution(matched, SubSeq(rep, 3, Len(rep)))
    ELSE IF Len(rep) >= 2 /\ rep[1] = "$" /\ rep[2] = "&"
         THEN matched \o GetSubstitution(matched, SubSeq(rep, 3, Len(rep)))
    ELSE <<Head(rep)>> \o GetSubstitution(matched, Tail(rep))

\* String.prototype.replace with a string pattern: the first occurrence only
replace(s, pat, rep) ==
    LET i == IndexOf(s, pat)
    IN  IF i = 0 THEN s
        ELSE SubSeq(s, 1, i - 1) \o GetSubstitution(pat, rep)
                \o SubSeq(s, i + Len(pat), Len(s))

\* obj[key] = value on a property map
PutMap(m, key, value) ==
    [k \in DOMAIN m \cup {key} |-> IF k = key THEN value ELSE m[k]]

\* new StylesheetScope(selector, parent); parent 0 is no parent
NewScope(selector, parent) ==
    [selector |-> selector, parent |-> parent, styles |-> <<>>,
     variables |-> <<>>, children |-> <<>>]

RECURSIVE resolvedScopeName(_, _)
\* getter StylesheetScope.resolvedScopeName
resolvedScopeName(sc, s) ==
    IF includes(sc[s].selector, <<"&">>) /\ sc[s].parent # 0
    THEN replace(sc[s].selector, <<"&">>, resolvedScopeName(sc, sc[s].parent))
    ELSE sc[s].selector

RECURSIVE cssScopeName(_, _)
\* getter StylesheetScope.cssScopeName
cssScopeName(sc, s) ==
    IF includes(sc[s].selector, <<"&">>) /\ sc[s].parent # 0
    THEN replace(sc[s].selector, <<"&">>, cssScopeName(sc, sc[s].parent))
    ELSE IF sc[s].parent # 0
         THEN cssScopeName(sc, sc[s].parent) \o <<" ">> \o sc[s].selector
         ELSE sc[s].selector

\* resolveVariable that asks the parent scopes before the scope itself
RECURSIVE resolveVariableParentFirst(_, _, _)
resolveVariableParentFirst(sc, s, variable) ==
    LET up == IF sc[s].parent # 0
              THEN resolveVariableParentFirst(sc, sc[s].parent, variable)
              ELSE variable
    IN  IF up # variable THEN up
        ELSE IF variable \in DOMAIN sc[s].variables THEN sc[s].variables[variable]
        ELSE variable

RECURSIVE resolveVariable(_, _, _)
\* StylesheetScope.resolveVariable
resolveVariable(sc, s, variable) ==
    IF variable \in DOMAIN sc[s].variables THEN sc[s].variables[variable]
    ELSE IF sc[s].parent # 0 THEN resolveVariable(sc, sc[s].parent, variable)
    ELSE variable

\* the end of the run of VarChars that starts at position i (i - 1 if none)
RECURSIVE RunEnd(_, _)
RunEnd(value, i) ==
    IF i <= Len(value) /\ value[i] \in VarChars THEN RunEnd(value, i + 1) ELSE i - 1

RECURSIVE MatchVars(_, _)
\* value.match(/@[\w-_]+/gm), each match without its '@'
MatchVars(value, i) ==
    IF i > Len(value) THEN <<>>
    ELSE IF value[i] = "@" /\ RunEnd(value, i + 1) >= i + 1
         THEN <<SubSeq(value, i + 1, RunEnd(value, i + 1))>>
              \o MatchVars(value, RunEnd(value, i + 1) + 1)
         ELSE MatchVars(value, i + 1)

\* CssUtil.GetVariablesInString
GetVariablesInString(value) == MatchVars(value, 1)

RECURSIVE ReplaceVars(_, _, _, _)
\* the forEach of addProperty: value = value.replace(`@${varName}`, varValue)
ReplaceVars(sc, s, variables, value) ==
    IF variables = <<>> THEN value
    ELSE ReplaceVars(sc, s, Tail(variables),
            replace(value, <<"@">> \o Head(variables),
                    resolveVariable(sc, s, Head(variables))))

\* StylesheetScope.addProperty
addProperty(sc, s, prop, value) ==
    [sc EXCEPT ![s].styles =
        PutMap(@, prop, ReplaceVars(sc, s, GetVariablesInString(value), value))]

\* One node of createStyleSheetScopes' forEach.  st = [scopes, stack]: the
\* last entry of stack is the `scope` argument of the running call, a rule
\* node starts the recursive call on its nodes and "end" is its return.
ProcessNode(st, node) ==
    LET scope == st.stack[Len(st.stack)]
    IN  CASE node.type = "atrule" ->
               [st EXCEPT !.scopes[scope].variables = PutMap(@, node.name, node.value)]
          [] node.type = "decl" ->
               [st EXCEPT !.scopes = addProperty(@, scope, node.prop, node.value)]
          [] node.type = "rule" ->
               IF node.selector \notin globalRules
               THEN LET newScope == Len(st.scopes) + 1
                    IN  [scopes |-> Append([st.scopes EXCEPT ![scope].children = Append(@, newScope)],
                                           NewScope(node.selector, scope)),
                         stack  |-> Append(st.stack, newScope)]
               ELSE [st EXCEPT !.stack = Append(@, scope)]
          [] node.type = "end" ->
               [st EXCEPT !.stack = SubSeq(@, 1, Len(@) - 1)]

RECURSIVE WalkNodes(_, _)
WalkNodes(st, nodes) ==
    IF nodes = <<>> THEN st ELSE WalkNodes(ProcessNode(st, Head(nodes)), Tail(nodes))

\* Stylesheet.createStyleSheetScopes(result.root.nodes, this.baseScope),
\* on the depth-first node stream
createStyleSheetScopes(nodes) ==
    WalkNodes([scopes |-> <<NewScope(<<"body">>, 0)>>, stack |-> <<1>>], nodes)

\* what the editor's text can hold
Selectors == {<<"body">>, <<".a">>, <<"&", " ", "+", " ", "&">>}

VariableNodes ==
    {[type |-> "atrule", name |-> <<"v">>, value |-> <<"1">>],
     [type |-> "atrule", name |-> <<"v">>, value |-> <<"2">>],
     [type |-> "atrule", name |-> <<"v">>, value |-> <<"$", "&">>],
     [type |-> "atrule", name |-> <<"w">>, value |-> <<"@", "v">>]}

DeclNodes ==
    {[type |-> "decl", prop |-> "color", value |-> val] :
        val \in {<<"@", "v">>, <<"@", "v", " ", "@", "v">>, <<"@", "w", " ", "@", "v">>}}

RuleNodes == {[type |-> "rule", selector |-> sel] : sel \in Selectors}

EndNode == [type |-> "end"]

\* number of rules of the text that are still open
OpenRules(nodes) ==
    Cardinality({i \in 1..Len(nodes) : nodes[i].type = "rule"})
      - Cardinality({i \in 1..Len(nodes) : nodes[i].type = "end"})

\* The text gets one more node at its end
TypeNode(node) ==
    /\ ~parsed
    /\ Cardinality({i \in 1..Len(text) : text[i].type # "end"}) < MaxStyleNodes
    /\ text' = Append(text, node)
    /\ UNCHANGED <<scopes, parsed>>
    /\ UNCHANGED otherThanScopes

\* The innermost open rule is closed
CloseRule ==
    /\ ~parsed
    /\ OpenRules(text) > 0
    /\ text' = Append(text, EndNode)
    /\ UNCHANGED <<scopes, parsed>>
    /\ UNCHANGED otherThanScopes

\* Stylesheet.parseFile, then-handler: the text is well formed, the scopes
\* are created from its nodes
ParseText ==
    /\ ~parsed
    /\ OpenRules(text) = 0
    /\ scopes' = createStyleSheetScopes(text).scopes
    /\ parsed' = TRUE
    /\ UNCHANGED text
    /\ UNCHANGED otherThanScopes

\* Stylesheet.constructor: baseScope = new StylesheetScope('body')
InitScopes ==
    /\ text = <<>>
    /\ scopes = <<NewScope(<<"body">>, 0)>>
    /\ parsed = FALSE
    /\ IdleCallbacks
    /\ IdleLayers
    /\ IdleSort
    /\ IdleDiff
    /\ IdleFetch
    /\ IdleReload
    /\ IdleLinks
    /\ IdleCss
    /\ IdleRange
    /\ IdleFile

NextScopes ==
    \/ \E node \in VariableNodes \cup DeclNodes \cup RuleNodes : TypeNode(node)
    \/ CloseRule
    \/ ParseText

SpecScopes == InitScopes /\ [][NextScopes]_vars

\* ---- claims about the scope tree -----------------------------------------
\* the parse just before, and just after, the i-th node of the text
StateBefore(i) == createStyleSheetScopes(SubSeq(text, 1, i - 1))
StateAfter(i) == createStyleSheetScopes(SubSeq(text, 1, i))

\* the scope the i-th node of the text is processed in
ScopeAt(i) == LET st == StateBefore(i) IN st.stack[Len(st.stack)]

DeclIndexes == {i \in 1..Len(text) : text[i].type = "decl"}

RECURSIVE SubstAll(_, _, _)
\* s with every element equal to token replaced by the sequence rep
SubstAll(s, token, rep) ==
    IF s = <<>> THEN <<>>
    ELSE (IF Head(s) = token THEN rep ELSE <<Head(s)>>) \o SubstAll(Tail(s), token, rep)

\* C8: a scope without parent resolves to its raw selector; with a parent
\* and `&` in the raw selector, to the raw selector with `&` replaced by the
\* parent's resolved selector; with a parent and no `&`, to the parent's
\* resolved selector, one space, the raw selector.
C8_ResolvedSelector ==
    parsed =>
        \A s \in 1..Len(scopes) :
            cssScopeName(scopes, s) =
                IF scopes[s].parent = 0 THEN scopes[s].selector
                ELSE IF \E k \in 1..Len(scopes[s].selector) : scopes[s].selector[k] = "&"
                     THEN SubstAll(scopes[s].selector, "&",
                                   cssScopeName(scopes, scopes[s].parent))
                     ELSE cssScopeName(scopes, scopes[s].parent)
                            \o <<" ">> \o scopes[s].selector

RECURSIVE SubstTokens(_, _, _)
\* value from position i on, with every @name reference replaced by by[name]
SubstTokens(value, i, by) ==
    IF i > Len(value) THEN <<>>
    ELSE IF value[i] = "@" /\ i + 1 <= Len(value) /\ value[i + 1] \in VarChars
         THEN LET j == CHOOSE j \in (i + 1)..Len(value) :
                         /\ \A k \in (i + 1)..j : value[k] \in VarChars
                         /\ (j = Len(value) \/ value[j + 1] \notin VarChars)
              IN  by[SubSeq(value, i + 1, j)] \o SubstTokens(value, j + 1, by)
         ELSE <<value[i]>> \o SubstTokens(value, i + 1, by)

\* the names referenced in a value
ReferencedIn(value) == Range(GetVariablesInString(value))

RECURSIVE BoundInChain(_, _, _)
BoundInChain(sc, s, name) ==
    \/ name \in DOMAIN sc[s].variables
    \/ (sc[s].parent # 0 /\ BoundInChain(sc, sc[s].parent, name))

\* C10: a property whose value references only variables that have no
\* binding in its scope or an ancestor when it is parsed is stored with its
\* value as written, the unresolved tokens `@name` included.
C10_UnboundStaysLiteral ==
    parsed =>
        \A i \in DeclIndexes :
            LET s == ScopeAt(i)
                before == StateBefore(i).scopes
            IN  (\A n \in ReferencedIn(text[i].value) : ~BoundInChain(before, s, n))
                => StateAfter(i).scopes[s].styles[text[i].prop] = text[i].value

\* ------------------------------------------------------------------------
\* A scope's styles against a layer's styles
\* (src/src/stylesheet.ts, src/unnamed/part_003)
\* ------------------------------------------------------------------------
\* A CssProperties object is a sequence of [prop, value] entries with distinct
\* props, in insertion order (the order `for ... in` and the spread visit).
MaxDeclarations == 3

Props == {"color", "font-size", "margin", "margin-top"}

ValuesOf(prop) ==
    CASE prop = "color" ->
            {"#FFFFFF", "rgb(255,255,255)", "transparent", "rgba(0,0,0,0)", "rgba(10,10,10,0)"}
      [] prop = "font-size" -> {"12px", "14px"}
      [] prop = "margin" -> {"4px", "4px 8px"}
      [] prop = "margin-top" -> {"4px"}

\* the keys of an object
Keys(m) == {m[i].prop : i \in 1..Len(m)}

\* prop in m
In(prop, m) == prop \in Keys(m)

\* m[prop], for prop in m
Get(m, prop) == LET i == CHOOSE i \in 1..Len(m) : m[i].prop = prop IN m[i].value

\* m[prop] = value: a present key keeps its place, a new key goes last
Put(m, prop, value) ==
    IF In(prop, m)
    THEN [i \in 1..Len(m) |-> IF m[i].prop = prop THEN [prop |-> prop, value |-> value] ELSE m[i]]
    ELSE Append(m, [prop |-> prop, value |-> value])

RECURSIVE Spread(_, _)
\* {...a, ...b}
Spread(a, b) ==
    IF b = <<>> THEN a ELSE Spread(Put(a, Head(b).prop, Head(b).value), Tail(b))

\* the getter StylesheetScope.styles of the base scope (no parent)
stylesOfBase == baseStyles

\* the getter StylesheetScope.styles of the scope under the base scope,
\* reading only the scope's own _styles
stylesOwnOnly == ruleStyles

\* the getter StylesheetScope.styles of the scope under the base scope
stylesOfRule == Spread(stylesOfBase, ruleStyles)

\* the space-separated parts of a margin value
MarginParts(value) ==
    CASE value = "4px" -> <<"4px">>
      [] value = "4px 8px" -> <<"4px", "8px">>

\* cssprop.expandShorthandProperty(prop, value): a shorthand gives its
\* longhands, any other property is returned as it is
expandShorthandProperty(prop, value) ==
    IF prop = "margin"
    THEN LET parts == MarginParts(value)
             vertical == parts[1]
             horizontal == IF Len(parts) >= 2 THEN parts[2] ELSE parts[1]
         IN  << [prop |-> "margin-top", value |-> vertical],
                [prop |-> "margin-right", value |-> horizontal],
                [prop |-> "margin-bottom", value |-> vertical],
                [prop |-> "margin-left", value |-> horizontal] >>
    ELSE << [prop |-> prop, value |-> value] >>

RECURSIVE ExpandLoop(_, _)
ExpandLoop(newProps, props) ==
    IF props = <<>> THEN newProps
    ELSE ExpandLoop(Spread(newProps, expandShorthandProperty(Head(props).prop, Head(props).value)),
                    Tail(props))

\* CssUtil.ExpandProperties
ExpandProperties(props) == ExpandLoop(<<>>, props)

\* parseColor(value).rgba: the four channels, or <<>> for undefined (a
\* keyword the colour tables do not hold, `transparent` among them)
parseColor(value) ==
    CASE value = "#FFFFFF" -> <<255, 255, 255, 1>>
      [] value = "rgb(255,255,255)" -> <<255, 255, 255, 1>>
      [] value = "rgba(0,0,0,0)" -> <<0, 0, 0, 0>>
      [] value = "rgba(10,10,10,0)" -> <<10, 10, 10, 0>>
      [] OTHER -> <<>>

\* prop.includes('color')
includesColor(prop) == prop \in {"color", "background-color", "border-color"}

\* CssUtil.CompareCssProperty with the transparent test left out
CompareCssPropertyChannelsOnly(prop, value1, value2) ==
    LET color1 == parseColor(value1)
        color2 == parseColor(value2)
    IN  IF includesColor(prop) /\ color1 # <<>> /\ color2 # <<>>
        THEN \A i \in 1..Len(color1) : color1[i] = color2[i]
        ELSE value1 = value2

\* CssUtil.CompareCssProperty: TRUE when the returned value is truthy
CompareCssProperty(prop, value1, value2) ==
    LET color1 == parseColor(value1)
        color2 == parseColor(value2)
    IN  IF includesColor(prop) /\ (value1 = "transparent" \/ value2 = "transparent")
        THEN (color1 # <<>> /\ color1[4] = 0) \/ (color2 # <<>> /\ color2[4] = 0)
        ELSE IF includesColor(prop) /\ color1 # <<>> /\ color2 # <<>>
        THEN \A i \in 1..Len(color1) : color1[i] = color2[i]
        ELSE value1 = value2

RECURSIVE DiffLoop(_, _, _, _)
\* for(let prop in thisProps) of diffIntersectingCssProperties
DiffLoop(diff, thisProps, i, others) ==
    IF i > Len(thisProps) THEN diff
    ELSE LET prop == thisProps[i].prop
         IN  DiffLoop(IF In(prop, others)
                         /\ ~CompareCssProperty(prop, Get(thisProps, prop), Get(others, prop))
                      THEN Put(diff, prop, Get(others, prop))
                      ELSE diff,
                      thisProps, i + 1, others)

\* StylesheetScope.diffIntersectingCssProperties with every property of the
\* layer compared, present in the scope or not
diffAllCssProperties(props) ==
    LET others == ExpandProperties(props)
    IN  SelectSeq(others, LAMBDA e :
            ~(In(e.prop, ExpandProperties(stylesOfRule))
              /\ CompareCssProperty(e.prop, Get(ExpandProperties(stylesOfRule), e.prop), e.value)))

\* StylesheetScope.diffIntersectingCssProperties
diffIntersectingCssProperties(props) ==
    DiffLoop(<<>>, ExpandProperties(stylesOfRule), 1, ExpandProperties(props))

RECURSIVE MissingLoop(_, _, _, _)
\* for(let prop in otherProps) of findMissingProperties
MissingLoop(miss, others, i, thisStyles) ==
    IF i > Len(others) THEN miss
    ELSE MissingLoop(IF ~In(others[i].prop, thisStyles)
                     THEN Put(miss, others[i].prop, others[i].value)
                     ELSE miss,
                     others, i + 1, thisStyles)

\* StylesheetScope.findMissingProperties on the scope's own _styles only
findMissingPropertiesOwnOnly(props) ==
    MissingLoop(<<>>, ExpandProperties(props), 1, ExpandProperties(stylesOwnOnly))

\* StylesheetScope.findMissingProperties
findMissingProperties(props) ==
    MissingLoop(<<>>, ExpandProperties(props), 1, ExpandProperties(stylesOfRule))

Declarations == Len(baseStyles) + Len(ruleStyles) + Len(otherProps)

\* StylesheetScope.addProperty on the base scope, the value free of variables
DeclareInBase(prop, value) ==
    /\ ~warned
    /\ Declarations < MaxDeclarations
    /\ baseStyles' = Put(baseStyles, prop, value)
    /\ UNCHANGED <<ruleStyles, otherProps, missing, different, warned>>
    /\ UNCHANGED otherThanDiff

\* StylesheetScope.addProperty on the scope under the base scope
DeclareInRule(prop, value) ==
    /\ ~warned
    /\ Declarations < MaxDeclarations
    /\ ruleStyles' = Put(ruleStyles, prop, value)
    /\ UNCHANGED <<baseStyles, otherProps, missing, different, warned>>
    /\ UNCHANGED otherThanDiff

\* The linked layer's style gets one more property
LayerProperty(prop, value) ==
    /\ ~warned
    /\ Declarations < MaxDeclarations
    /\ otherProps' = Put(otherProps, prop, value)
    /\ UNCHANGED <<baseStyles, ruleStyles, missing, different, warned>>
    /\ UNCHANGED otherThanDiff

\* Stylesheet.getScopeWarnings(scope, layerStyles)
getScopeWarnings ==
    /\ ~warned
    /\ missing' = findMissingProperties(otherProps)
    /\ different' = diffIntersectingCssProperties(otherProps)
    /\ warned' = TRUE
    /\ UNCHANGED <<baseStyles, ruleStyles, otherProps>>
    /\ UNCHANGED otherThanDiff

InitDiff ==
    /\ IdleDiff
    /\ IdleFetch
    /\ IdleReload
    /\ IdleLinks
    /\ IdleCallbacks
    /\ IdleLayers
    /\ IdleSort
    /\ IdleScopes
    /\ IdleCss
    /\ IdleRange
    /\ IdleFile

NextDiff ==
    \/ \E prop \in Props : \E value \in ValuesOf(prop) : DeclareInBase(prop, value)
    \/ \E prop \in Props : \E value \in ValuesOf(prop) : DeclareInRule(prop, value)
    \/ \E prop \in Props : \E value \in ValuesOf(prop) : LayerProperty(prop, value)
    \/ getScopeWarnings

SpecDiff == InitDiff /\ [][NextDiff]_vars

\* ---- claims about the scope's styles against the layer's ----------------
\* the entries of an object, as a set
Entries(m) == {m[i] : i \in 1..Len(m)}

\* the names a style has after shorthand expansion
ExpandedNames(m) == UNION {Keys(expandShorthandProperty(e.prop, e.value)) : e \in Entries(m)}

\* C11: findMissingProperties returns exactly the properties (name and
\* layer value) of the expanded layer style whose name is not in the
\* expanded scope style, the scope style being the scope's own declarations
\* merged over the inherited ones.
C11_MissingExactly ==
    warned =>
        /\ Len(missing) = Cardinality(Keys(missing))
        /\ Entries(missing) =
              {e \in Entries(ExpandProperties(otherProps)) :
                  e.prop \notin ExpandedNames(ruleStyles) \cup ExpandedNames(baseStyles)}

\* C11 witness: scope {color: #FFFFFF}, layer {color: #FFFFFF, font-size: 12px}
C11_Witness ==
    /\ warned
    /\ ruleStyles = <<[prop |-> "color", value |-> "#FFFFFF"]>>
    /\ otherProps = <<[prop |-> "color", value |-> "#FFFFFF"],
                      [prop |-> "font-size", value |-> "12px"]>>
    /\ missing = <<[prop |-> "font-size", value |-> "12px"]>>

\* the value's alpha channel is exactly 0
AlphaIsZero(value) == parseColor(value) # <<>> /\ parseColor(value)[4] = 0

\* the property-aware equality of two values of a property
PropertyAwareEqual(prop, value1, value2) ==
    IF ~includesColor(prop) THEN value1 = value2
    ELSE IF value1 = "transparent" THEN AlphaIsZero(value2)
    ELSE IF value2 = "transparent" THEN AlphaIsZero(value1)
    ELSE IF parseColor(value1) # <<>> /\ parseColor(value2) # <<>>
         THEN parseColor(value1) = parseColor(value2)
    ELSE value1 = value2

\* C12: diffIntersectingCssProperties returns exactly the properties that
\* are in both the expanded scope style and the expanded layer style with
\* values that are not equal under the property-aware comparison, each with
\* the layer's value; a property on one side only is never returned.
C12_DifferentExactly ==
    warned =>
        LET thisProps == ExpandProperties(stylesOfRule)
            others == ExpandProperties(otherProps)
        IN  /\ Len(different) = Cardinality(Keys(different))
            /\ Entries(different) =
                  {e \in Entries(others) :
                      /\ In(e.prop, thisProps)
                      /\ ~PropertyAwareEqual(e.prop, Get(thisProps, e.prop), e.value)}
            /\ Keys(different) \subseteq Keys(thisProps) \cap Keys(others)

\* C12 witness: font-size is on both sides with different values and is
\* returned with the layer's value; color is on the layer's side only and
\* is not returned
C12_Witness ==
    /\ warned
    /\ ruleStyles = <<[prop |-> "font-size", value |-> "12px"]>>
    /\ In("font-size", otherProps) /\ Get(otherProps, "font-size") = "14px"
    /\ In("color", otherProps)
    /\ different = <<[prop |-> "font-size", value |-> "14px"]>>

\* C13: for a property whose name contains "color", when either raw value
\* is `transparent`, CompareCssProperty reports equality if and only if the
\* other value's alpha channel is exactly 0.
C13_TransparentIffAlphaZero ==
    warned =>
        \A prop \in Keys(stylesOfRule) \cap Keys(otherProps) :
            LET value1 == Get(stylesOfRule, prop)
                value2 == Get(otherProps, prop)
            IN  /\ (includesColor(prop) /\ value1 = "transparent")
                      => (CompareCssProperty(prop, value1, value2) <=> AlphaIsZero(value2))
                /\ (includesColor(prop) /\ value2 = "transparent")
                      => (CompareCssProperty(prop, value1, value2) <=> AlphaIsZero(value1))
                /\ (includesColor(prop) /\ "transparent" \in {value1, value2})
                      => (In(prop, different) <=> ~CompareCssProperty(prop, value1, value2))

\* C13 witness: the layer's colour is compared with the scope's
\* `transparent` and is reported equal, its alpha being 0
C13_Witness ==
    /\ warned
    /\ In("color", ruleStyles) /\ Get(ruleStyles, "color") = "transparent"
    /\ In("color", otherProps) /\ AlphaIsZero(Get(otherProps, "color"))
    /\ ~In("color", different)

\* C14 as stated: under the comparison of a color property `transparent`
\* is equal to `rgba(0,0,0,0)` and is not equal to `rgba(10,10,10,0)`.
C14_TransparentOnlyBlack ==
    (warned /\ In("color", stylesOfRule) /\ In("color", otherProps)
        /\ Get(stylesOfRule, "color") = "transparent")
    => /\ Get(otherProps, "color") = "rgba(0,0,0,0)" => ~In("color", different)
       /\ Get(otherProps, "color") = "rgba(10,10,10,0)" => In("color", different)

\* C14 amended: under the comparison of a color property `transparent` is
\* equal to `rgba(0,0,0,0)` and equal to `rgba(10,10,10,0)` as well: only
\* the alpha channel of the other value is looked at.
C14_TransparentAnyAlphaZero ==
    (warned /\ In("color", stylesOfRule) /\ In("color", otherProps)
        /\ Get(stylesOfRule, "color") = "transparent")
    => /\ Get(otherProps, "color") = "rgba(0,0,0,0)"
            => (~In("color", different)
                /\ CompareCssProperty("color", "transparent", "rgba(0,0,0,0)")
                /\ CompareCssProperty("color", "rgba(0,0,0,0)", "transparent"))
       /\ Get(otherProps, "color") = "rgba(10,10,10,0)"
            => (~In("color", different)
                /\ CompareCssProperty("color", "transparent", "rgba(10,10,10,0)")
                /\ CompareCssProperty("color", "rgba(10,10,10,0)", "transparent"))

\* C14 witness: scope colour `transparent`, layer colour `rgba(10,10,10,0)`,
\* no difference reported
C14_Witness ==
    /\ warned
    /\ In("color", ruleStyles) /\ Get(ruleStyles, "color") = "transparent"
    /\ In("color", otherProps) /\ Get(otherProps, "color") = "rgba(10,10,10,0)"
    /\ different = <<>>

\* ------------------------------------------------------------------------
\* Fetch of the design document and the status bar
\* (src/src/workspacestate.ts)
\* ------------------------------------------------------------------------
MaxFetches == 2
MaxModified == 3

\* getFigmaFile(fileKey) finds nothing
NoFile == 0

\* the texts and commands of the status setter
SyncingText == "$(repo-sync) Syncing with api.figma.com"
SyncedText == "$(check) Connected with Figma"
ErrorText == "$(alert) Something went wrong..."
SyncCommand == "figmasync.syncLessFile"
RemoveCommand == "figmasync.removeFigmaSync"

\* showStatusBar(text, command) of the status setter
showStatusBar(bar, txt, command) ==
    [text |-> txt,
     command |-> IF command # "" THEN command ELSE bar.command,
     visible |-> TRUE]

\* WorkspaceState.statusBar.hide()
hide(bar) == [bar EXCEPT !.visible = FALSE]

\* set status(status): the ERROR case has no `break` and runs into default
setStatus(bar, status) ==
    CASE status = "NOT_ATTACHED" ->
            showStatusBar(bar, "$(circle-slash) Not connected to Figma", SyncCommand)
      [] status = "SYNCING" -> showStatusBar(bar, SyncingText, "")
      [] status = "SYNCED" -> showStatusBar(bar, SyncedText, RemoveCommand)
      [] status = "ERROR" -> hide(showStatusBar(bar, ErrorText, SyncCommand))
      [] OTHER -> hide(bar)

\* the cache test of the then-handler, always taking the answer
isStaleAlways(cached, lastModified) == TRUE

\* !figmaFile || data.lastModified !== figmaFile.lastModified
isStale(cached, lastModified) == cached = NoFile \/ lastModified # cached

\* the state the step found, kept for the step's record
Found(kind, lastModified) ==
    [kind |-> kind, lastModified |-> lastModified, cached |-> figmaFile,
     sidebar |-> sidebarFile, loads |-> sidebarLoads]

\* number of fetchFigmaFile calls so far
Fetches == Cardinality(requests) + Cardinality(responses) + Cardinality(settled)

\* WorkspaceState.fetchFigmaFile(fileKey), the document being set up
fetchFigmaFile ==
    /\ Fetches < MaxFetches
    /\ requests' = requests \cup {Fetches + 1}
    /\ statusBar' = setStatus(statusBar, "SYNCING")
    /\ lastHandler' = Found("fetch", NoFile)
    /\ UNCHANGED <<serverModified, responses, figmaFile, sidebarFile, sidebarLoads, settled>>
    /\ UNCHANGED otherThanFetch

\* The document is edited in Figma
ServerEdit ==
    /\ serverModified < MaxModified
    /\ serverModified' = serverModified + 1
    /\ lastHandler' = Found("edit", NoFile)
    /\ UNCHANGED <<requests, responses, figmaFile, sidebarFile, sidebarLoads, statusBar, settled>>
    /\ UNCHANGED otherThanFetch

\* api.figma.com answers a fetch with the document as it is now
ServerRespond(id) ==
    /\ id \in requests
    /\ requests' = requests \ {id}
    /\ responses' = responses \cup {[id |-> id, lastModified |-> serverModified]}
    /\ lastHandler' = Found("respond", NoFile)
    /\ UNCHANGED <<serverModified, figmaFile, sidebarFile, sidebarLoads, statusBar, settled>>
    /\ UNCHANGED otherThanFetch

\* client.file(fileKey).then(({ data }) => ...), addFigmaFile and
\* loadSidebar included
FetchFulfilled(r) ==
    /\ r \in responses
    /\ responses' = responses \ {r}
    /\ IF isStale(figmaFile, r.lastModified)
       THEN /\ figmaFile' = r.lastModified
            /\ sidebarFile' = r.lastModified
            /\ sidebarLoads' = sidebarLoads + 1
       ELSE UNCHANGED <<figmaFile, sidebarFile, sidebarLoads>>
    /\ statusBar' = setStatus(statusBar, "SYNCED")
    /\ settled' = settled \cup {[id |-> r.id, outcome |-> "fulfilled", lastModified |-> r.lastModified]}
    /\ lastHandler' = Found("then", r.lastModified)
    /\ UNCHANGED <<serverModified, requests>>
    /\ UNCHANGED otherThanFetch

\* .catch(reason => ...): the fetch is rejected
FetchRejected(id) ==
    /\ id \in requests
    /\ requests' = requests \ {id}
    /\ statusBar' = setStatus(statusBar, "ERROR")
    /\ settled' = settled \cup {[id |-> id, outcome |-> "rejected", lastModified |-> NoFile]}
    /\ lastHandler' = Found("catch", NoFile)
    /\ UNCHANGED <<serverModified, responses, figmaFile, sidebarFile, sidebarLoads>>
    /\ UNCHANGED otherThanFetch

\* WorkspaceState.load: status = getDefaultStatus() with the document set
\* up, loadSidebar with the cached files
InitFetch ==
    /\ serverModified = 1
    /\ requests = {}
    /\ responses = {}
    /\ figmaFile \in {NoFile, 1}
    /\ sidebarFile = figmaFile
    /\ sidebarLoads = 1
    /\ statusBar = setStatus([text |-> "", command |-> "", visible |-> FALSE], "SYNCED")
    /\ settled = {}
    /\ lastHandler = [kind |-> "none"]
    /\ IdleCallbacks
    /\ IdleLayers
    /\ IdleSort
    /\ IdleScopes
    /\ IdleDiff
    /\ IdleReload
    /\ IdleLinks
    /\ IdleCss
    /\ IdleRange
    /\ IdleFile

NextFetch ==
    \/ fetchFigmaFile
    \/ ServerEdit
    \/ \E id \in requests : ServerRespond(id)
    \/ \E r \in responses : FetchFulfilled(r)
    \/ \E id \in requests : FetchRejected(id)

SpecFetch == InitFetch /\ [][NextFetch]_vars

\* ---- claims about the fetch ----------------------------------------------
\* the greatest member of a set of numbers
Newest(S) == CHOOSE m \in S : \A n \in S : n <= m

\* the lastModified of the answers the then-handler got
Delivered == {r.lastModified : r \in {x \in settled : x.outcome = "fulfilled"}}

\* C15: once every fetch has settled, the cached document and the layer
\* tree are those of the snapshot with the most recent lastModified among
\* the answers received: an older snapshot never replaces a newer one.
C15_NewestSnapshotKept ==
    (requests = {} /\ responses = {} /\ Delivered # {})
    => (figmaFile = Newest(Delivered) /\ sidebarFile = Newest(Delivered))

\* C16: an answer whose lastModified equals the cached document's leaves
\* the cached document and the layer tree as they were.
C16_SameLastModifiedNoOp ==
    (lastHandler.kind = "then" /\ lastHandler.cached # NoFile
        /\ lastHandler.lastModified = lastHandler.cached)
    => /\ figmaFile = lastHandler.cached
       /\ sidebarFile = lastHandler.sidebar
       /\ sidebarLoads = lastHandler.loads

\* C16 witness: an answer with the cached lastModified has just been handled
C16_Witness ==
    /\ lastHandler.kind = "then"
    /\ lastHandler.cached # NoFile
    /\ lastHandler.lastModified = lastHandler.cached
    /\ figmaFile = lastHandler.cached
    /\ statusBar.text = SyncedText

\* C20: after a rejected fetch the status indicator is visible and shows
\* the error message with the retry command.
C20_ErrorStaysVisible ==
    lastHandler.kind = "catch"
    => /\ statusBar.visible
       /\ statusBar.text = ErrorText
       /\ statusBar.command = SyncCommand

\* ------------------------------------------------------------------------
\* Reload of the stylesheet view
\* (src/unnamed/part_010, src/src/stylesheet.ts)
\* ------------------------------------------------------------------------
RuleNode(selector) == [type |-> "rule", selector |-> selector]

\* The texts the editor can hold, as the node streams postcss gives:
\* nothing; `.a {}`; `.a { .a {} }`; `.a {} .b {}`; and the malformed `.a {`,
\* whose parse promise is rejected
Stylesheets ==
    { <<>>,
      <<RuleNode(<<".a">>)>>,
      <<RuleNode(<<".a">>), EndNode>>,
      <<RuleNode(<<".a">>), RuleNode(<<".a">>), EndNode, EndNode>>,
      <<RuleNode(<<".a">>), EndNode, RuleNode(<<".b">>), EndNode>> }

RECURSIVE getAllSelectorsList(_, _)
RECURSIVE ChildrenSelectors(_, _)
\* this.children.forEach(child => list.push(...child.getAllSelectorsList()))
ChildrenSelectors(sc, kids) ==
    IF kids = <<>> THEN <<>>
    ELSE getAllSelectorsList(sc, Head(kids)) \o ChildrenSelectors(sc, Tail(kids))

\* StylesheetScope.getAllSelectorsList
getAllSelectorsList(sc, s) == <<cssScopeName(sc, s)>> \o ChildrenSelectors(sc, sc[s].children)

\* Stylesheet.getAllSelectors
getAllSelectors(sc) == getAllSelectorsList(sc, 1)

RECURSIVE FirstFound(_, _, _)
RECURSIVE _getScope(_, _, _)
\* the loop over scope.children of _getScope: the first result that is found
FirstFound(sc, selector, kids) ==
    IF kids = <<>> THEN 0
    ELSE LET result == _getScope(sc, selector, Head(kids))
         IN  IF result # 0 THEN result ELSE FirstFound(sc, selector, Tail(kids))

\* Stylesheet._getScope(selector, scope): the scope found, 0 for undefined
_getScope(sc, selector, s) ==
    IF cssScopeName(sc, s) = selector THEN s
    ELSE FirstFound(sc, selector, sc[s].children)

\* Stylesheet.getScope(selector)
getScope(sc, selector) == _getScope(sc, selector, 1)

\* WorkspaceState.loadStyleSheetView (handleEditorChange): the field
\* stylesheet takes a new Stylesheet, whose constructor sets baseScope to a
\* scope `body` of its own and starts the parse
loadStyleSheetView(newText) ==
    /\ text' = newText
    /\ scopes' = <<NewScope(<<"body">>, 0)>>
    /\ parsed' = FALSE
    /\ previousTree' = IF parsed THEN scopes ELSE previousTree
    /\ UNCHANGED observed
    /\ UNCHANGED otherThanReload

\* A reader of the current stylesheet: WorkspaceState.selectors
\* (stylesheet.getAllSelectors()), run between two handlers
ReadSelectors ==
    /\ observed' = [kind |-> "read",
                    selectors |-> getAllSelectors(scopes),
                    inFlight |-> ~parsed,
                    hadPrevious |-> previousTree # <<>>,
                    previous |-> IF previousTree # <<>> THEN getAllSelectors(previousTree) ELSE <<>>,
                    next |-> IF OpenRules(text) = 0
                             THEN getAllSelectors(createStyleSheetScopes(text).scopes)
                             ELSE <<>>]
    /\ observed' # observed
    /\ UNCHANGED <<text, scopes, parsed, previousTree>>
    /\ UNCHANGED otherThanReload

\* WorkspaceState.load: loadStyleSheetView for the editor's text
InitReload ==
    /\ text \in Stylesheets
    /\ scopes = <<NewScope(<<"body">>, 0)>>
    /\ parsed = FALSE
    /\ previousTree = <<>>
    /\ observed = [kind |-> "none"]
    /\ IdleCallbacks
    /\ IdleLayers
    /\ IdleSort
    /\ IdleDiff
    /\ IdleFetch
    /\ IdleLinks
    /\ IdleCss
    /\ IdleRange
    /\ IdleFile

NextReload ==
    \/ \E newText \in Stylesheets : loadStyleSheetView(newText)
    \/ ParseText
    \/ ReadSelectors

SpecReload == InitReload /\ [][NextReload]_vars

\* ---- claims about the reload ---------------------------------------------
\* C17: a reader of the current stylesheet, while a re-parse is in flight,
\* observes the complete scope tree of the previous parse or the complete
\* scope tree of the new parse, never an empty or partly built tree.
\* (A text whose parse is rejected has no new tree: next is then <<>>, which
\* no reader returns, the list of selectors starting with `body`.)
C17_ReaderSeesCompleteTree ==
    (observed.kind = "read" /\ observed.inFlight /\ observed.hadPrevious)
    => observed.selectors \in {observed.previous, observed.next}

\* ------------------------------------------------------------------------
\* Links between layers and scopes
\* (src/src/storage.ts, src/src/workspacestate.ts, src/src/link.ts)
\* ------------------------------------------------------------------------
MaxLinks == 2

\* enum IdOrder { Layer=0, Scope=1 }, as positions of a sequence
IdOrderLayer == 1
IdOrderScope == 2

\* keys of Figma files, and ids of the nodes of a document (a document
\* numbers its nodes on its own: two documents can hold the same id)
FileKeys == {"K1", "K2"}
NodeIds == {"1:1", "1:2"}

\* a node of a document
FigmaNode(id, kids) == [id |-> id, children |-> kids]

\* the component nodes (FigmaFile.nodes) a file can have
FileNodes ==
    { <<FigmaNode("1:2", <<>>)>>,
      <<FigmaNode("1:1", <<FigmaNode("1:2", <<>>)>>)>> }

\* the files of the workspace (WorkspaceState.figmaFiles): no key twice
FigmaFiles ==
    {<<>>}
    \cup {<<[key |-> k, nodes |-> n]>> : k \in FileKeys, n \in FileNodes}
    \cup {files \in {<<[key |-> k1, nodes |-> n1], [key |-> k2, nodes |-> n2]>> :
                        k1 \in FileKeys, k2 \in FileKeys, n1 \in FileNodes, n2 \in FileNodes} :
            files[1].key # files[2].key}

\* new FigmaLayer(fileId, node, parent), by what identifies it
FigmaLayer(fileId, node) == [fileKey |-> fileId, nodeId |-> node.id]

\* getter FigmaLayer.id: `${this.fileKey}:${this.node.id}`
LayerId(layer) == layer.fileKey \o ":" \o layer.nodeId

\* no layer (undefined)
NoLayer == [fileKey |-> "", nodeId |-> ""]

RECURSIVE createTreeItemMap(_, _, _)
RECURSIVE CreateChildren(_, _, _)
\* node.children.forEach(child => this.createTreeItemMap(fileId, child, meta, layer))
CreateChildren(st, fileId, kids) ==
    IF kids = <<>> THEN st
    ELSE CreateChildren(createTreeItemMap(st, fileId, Head(kids)), fileId, Tail(kids))

\* FigmaLayerProvider.createTreeItemMap: st = [treeItems, layers]
createTreeItemMap(st, fileId, node) ==
    LET layer == FigmaLayer(fileId, node)
    IN  CreateChildren([treeItems |-> PutMap(st.treeItems, node.id, layer),
                        layers |-> Append(st.layers, layer)],
                       fileId, node.children)

RECURSIVE ProviderOfFiles(_, _)
\* FigmaLayerProvider.constructor: figmaFiles.forEach(file => file.nodes.forEach(...))
ProviderOfFiles(st, files) ==
    IF files = <<>> THEN st
    ELSE ProviderOfFiles(CreateChildren(st, Head(files).key, Head(files).nodes), Tail(files))

\* the ids a stored link can name for a layer
StoredLayerIds == {"K1:1:1", "K1:1:2"}

\* full selectors a stored link can name
ScopeIds == { <<"body">>, <<"body", " ", ".a">> }

\* the texts of the stylesheet the links are for: nothing, and `.a {}`
LinkedStylesheets == { <<>>, <<RuleNode(<<".a">>), EndNode>> }

\* what the file .figmasync can hold for the stylesheet: up to MaxLinks
\* pairs [layer id, scope id], no pair twice
StoredLinks ==
    LET pairs == {<<l, sc>> : l \in StoredLayerIds, sc \in ScopeIds}
    IN  UNION { {q \in [1..n -> pairs] : \A i, j \in 1..n : q[i] = q[j] => i = j} : n \in 0..MaxLinks }

\* getter DataStorage.links: `return [];`
links == <<>>

\* WorkspaceState.getLayerById: the layer, NoLayer for undefined
getLayerById(layerId) == IF layerId \in DOMAIN treeItems THEN treeItems[layerId] ELSE NoLayer

\* WorkspaceState.getScopeByFullSelector: the scope, 0 for undefined
getScopeByFullSelector(fullSelector) == getScope(scopes, fullSelector)

\* new LayerSelectorLink(layer, scope), by its ids
LayerSelectorLink(layer, scope) == [layerId |-> LayerId(layer), scopeId |-> cssScopeName(scopes, scope)]

RECURSIVE ReduceLinks(_, _, _)
\* the reduce of _getLinksBy over the array of stored ids
ReduceLinks(acc, rest, type) ==
    IF rest = <<>> THEN acc
    ELSE LET ids == Head(rest)
             layer == getLayerById(ids[IdOrderLayer])
             scope == getScopeByFullSelector(ids[IdOrderScope])
             key == ids[type]
         IN  IF layer # NoLayer /\ scope # 0
             THEN LET linksArray == IF In(key, acc) THEN Get(acc, key) ELSE <<>>
                  IN  ReduceLinks(Put(acc, key, Append(linksArray, LayerSelectorLink(layer, scope))),
                                  Tail(rest), type)
             ELSE ReduceLinks(acc, Tail(rest), type)

\* WorkspaceState._getLinksBy(type)
_getLinksBy(type) == ReduceLinks(<<>>, links, type)

\* getters WorkspaceState.linksByLayer, linksBySelector
linksByLayer == _getLinksBy(IdOrderLayer)
linksBySelector == _getLinksBy(IdOrderScope)

\* DataStorage.addLink(linkIds): the local array after the call
DataStorageAddLink(linkIds) ==
    LET stored == links
        linkExists == \E i \in 1..Len(stored) :
                          /\ stored[i][IdOrderLayer] = linkIds[IdOrderLayer]
                          /\ stored[i][IdOrderScope] = linkIds[IdOrderScope]
    IN  IF ~linkExists THEN Append(stored, linkIds) ELSE stored

\* WorkspaceState.addLink(layer, scope): storage.addLink(link.ids), whose
\* array is dropped when it returns (nothing is written), then
\* updateViewsWithLinks, which does nothing
addLink(layer, scope) ==
    /\ layer \in Range(builtLayers)
    /\ scope \in 1..Len(scopes)
    /\ LET link == LayerSelectorLink(layer, scope)
           ids == <<link.layerId, link.scopeId>>
       IN  lastAdd' = [kind |-> "add", ids |-> ids, before |-> fileLinks,
                       pushed |-> DataStorageAddLink(ids)]
    /\ UNCHANGED <<fileLinks, treeItems, builtLayers>>
    /\ UNCHANGED <<scopeVars, reloadVars>>
    /\ UNCHANGED otherThanLinks

\* WorkspaceState.loadSidebar: a new FigmaLayerProvider, built from the
\* Figma files of the workspace
loadSidebar(files) ==
    /\ LET provider == ProviderOfFiles([treeItems |-> <<>>, layers |-> <<>>], files)
       IN  /\ treeItems' = provider.treeItems
           /\ builtLayers' = provider.layers
    /\ UNCHANGED <<fileLinks, lastAdd>>
    /\ UNCHANGED <<scopeVars, reloadVars>>
    /\ UNCHANGED otherThanLinks

\* DataStorage.constructor: FileStorage.readFile reads the links of the file
InitLinks ==
    /\ fileLinks \in StoredLinks
    /\ treeItems = <<>>
    /\ builtLayers = <<>>
    /\ lastAdd = [kind |-> "none"]
    /\ text \in LinkedStylesheets
    /\ scopes = <<NewScope(<<"body">>, 0)>>
    /\ parsed = FALSE
    /\ IdleReload
    /\ IdleCallbacks
    /\ IdleLayers
    /\ IdleSort
    /\ IdleDiff
    /\ IdleFetch
    /\ IdleCss
    /\ IdleRange
    /\ IdleFile

NextLinks ==
    \/ \E files \in FigmaFiles : loadSidebar(files)
    \/ \E newText \in LinkedStylesheets : loadStyleSheetView(newText)
    \/ ParseText
    \/ \E layer \in [fileKey : FileKeys, nodeId : NodeIds] :
          \E scope \in 1..MaxStyleNodes : addLink(layer, scope)

SpecLinks == InitLinks /\ [][NextLinks]_vars

\* ---- claims about the links ----------------------------------------------
\* the pairs of a link map
PairsOf(map) ==
    UNION { {<<l.layerId, l.scopeId>> : l \in Range(map[i].value)} : i \in 1..Len(map) }

\* the stored pairs whose layer is in the layer tree and whose scope is in
\* the scope tree
ResolvablePairs ==
    {ids \in Range(fileLinks) :
        /\ ids[IdOrderLayer] \in {LayerId(layer) : layer \in Range(builtLayers)}
        /\ ids[IdOrderScope] \in Range(getAllSelectors(scopes))}

\* C18: after any rebuild of the layer tree or of the scope tree the link maps
\* linksByLayer and linksBySelector contain exactly the stored pairs whose
\* layer id is in the current layer tree and whose scope id is in the current
\* scope tree.
C18_LinkMapsHoldResolvablePairs ==
    /\ PairsOf(linksByLayer) = ResolvablePairs
    /\ PairsOf(linksBySelector) = ResolvablePairs

\* how many times a pair is stored
TimesStored(ids) == Cardinality({i \in 1..Len(fileLinks) : fileLinks[i] = ids})

\* C19: after addLink(layer, scope) the stored links contain the pair
\* (layer.id, scope.cssScopeName) exactly once, and every pair stored before
\* the call is still stored.
C19_AddLinkStoresPairOnce ==
    lastAdd.kind = "add"
    => /\ TimesStored(lastAdd.ids) = 1
       /\ Range(lastAdd.before) \subseteq Range(fileLinks)

\* ------------------------------------------------------------------------
\* FigmaUtil.GetCssProperties (src/src/util/figma-util.ts)
\* ------------------------------------------------------------------------
MaxStrokes == 2

\* Numbers between 0 and 1 (colour channels, opacity) are kept in hundredths.
Hundredths == {0, 50, 100}

\* a number of hundredths as JavaScript prints it: 100 -> "1", 50 -> "0.5",
\* 25 -> "0.25"
NumberString(h) ==
    IF h % 100 = 0 THEN ToString(h \div 100)
    ELSE IF h % 10 = 0 THEN ToString(h \div 100) \o "." \o ToString((h % 100) \div 10)
         ELSE ToString(h \div 100) \o "." \o ToString((h % 100) \div 10) \o ToString(h % 10)

\* FigmaUtil.Px
Px(number) == ToString(number) \o "px"

\* round = n => Math.round(n * 100) / 100, of a number given in ten-thousandths
round(tenThousandths) == (tenThousandths + 50) \div 100

\* the digits of toString(16), after the toUpperCase() of the whole string
HexDigit(d) == <<"0", "1", "2", "3", "4", "5", "6", "7", "8", "9", "A", "B", "C", "D", "E", "F">>[d + 1]

\* convert = channel => Math.floor(channel * 255).toString(16).padStart(2,'0')
convert(channel) ==
    LET n == (channel * 255) \div 100
    IN  HexDigit(n \div 16) \o HexDigit(n % 16)

\* FigmaUtil.GetColorString(fill): fill is a paint (with a color, and maybe an
\* opacity) or a color
GetColorString(fill) ==
    LET color == IF "color" \in DOMAIN fill THEN fill.color ELSE fill
        opacity == IF "opacity" \in DOMAIN fill THEN fill.opacity ELSE 100
        alpha == round(color.a * opacity)
    IN  IF alpha < 100
        THEN "rgba(" \o NumberString(color.r) \o "," \o NumberString(color.g) \o ","
                     \o NumberString(color.b) \o "," \o NumberString(alpha) \o ")"
        ELSE "#" \o convert(color.r) \o convert(color.g) \o convert(color.b)

\* the colours of the paints
Colors == { [r |-> 100, g |-> 0, b |-> 0, a |-> 100],
            [r |-> 0, g |-> 0, b |-> 100, a |-> 100],
            [r |-> 0, g |-> 50, b |-> 0, a |-> 50] }

PaintTypes == {"SOLID", "GRADIENT_LINEAR"}

\* a paint of figma-js: the strokes carry no opacity of their own here
Paints == [type : PaintTypes, color : Colors]

\* A value of an attribute is kept under the name of its JavaScript type:
\* [string |-> ..], [number |-> ..], [array |-> ..] or [object |-> ..].
AttrValues(prop) ==
    CASE prop = "type" -> {[string |-> t] : t \in {"TEXT", "RECTANGLE"}}
      [] prop = "style" ->
            {[object |-> [fontFamily |-> "Roboto", fontSize |-> 12, fontWeight |-> 400, lineHeightPx |-> 14]]}
      [] prop = "fills" ->
            {[array |-> a] : a \in {<<>>, <<[type |-> "SOLID", opacity |-> 50,
                                             color |-> [r |-> 100, g |-> 100, b |-> 100, a |-> 100]]>>}}
      [] prop = "strokes" -> {[array |-> a] : a \in UNION {[1..n -> Paints] : n \in 0..MaxStrokes}}
      [] prop = "strokeWeight" -> {[number |-> n] : n \in {1, 2}}
      [] prop = "cornerRadius" -> {[number |-> n] : n \in {4}}
      [] prop = "effects" ->
            {[array |-> a] : a \in {<<>>, <<[type |-> "DROP_SHADOW", offset |-> [x |-> 0, y |-> 2], radius |-> 4,
                                             color |-> [r |-> 0, g |-> 0, b |-> 0, a |-> 50]]>>}}

\* the attributes in the order the document gives them
AttrOrder == <<"type", "style", "fills", "strokes", "strokeWeight", "cornerRadius", "effects">>

\* the attributes every node has
AlwaysPresent == {"type"}

RECURSIVE NodesFrom(_)
\* the nodes: every attribute after `type` is absent or has one of its values
NodesFrom(i) ==
    IF i > Len(AttrOrder) THEN {<<>>}
    ELSE LET prop == AttrOrder[i]
             rest == NodesFrom(i + 1)
             with == {<<[prop |-> prop, value |-> v]>> \o r : v \in AttrValues(prop), r \in rest}
         IN  IF prop \in AlwaysPresent THEN with ELSE with \cup rest

Nodes == NodesFrom(1)

\* what a call gives: the value it returns, or the error it raises
Returned(css) == [kind |-> "returned", css |-> css]
TypeError == [kind |-> "raised", error |-> "TypeError"]

RECURSIVE FillsLoop(_, _, _)
\* case 'fills': the loop over the fills
FillsLoop(css, value, prop) ==
    IF value = <<>> THEN css
    ELSE LET fill == Head(value)
         IN  IF fill.type = "SOLID"
             THEN FillsLoop(Put(css, prop, GetColorString(fill)), Tail(value), prop)
             ELSE FillsLoop(css, Tail(value), prop)

RECURSIVE StrokesLoop(_, _)
\* case 'strokes': the loop over the strokes
StrokesLoop(css, value) ==
    IF value = <<>> THEN css
    ELSE LET stroke == Head(value)
         IN  IF stroke.type = "SOLID"
             THEN StrokesLoop(Put(Put(css, "border-style", "solid"), "border-color",
                                  GetColorString(stroke.color)), Tail(value))
             ELSE StrokesLoop(css, Tail(value))

RECURSIVE EffectsLoop(_, _)
\* case 'effects': value.forEach
EffectsLoop(css, value) ==
    IF value = <<>> THEN css
    ELSE LET effect == Head(value)
             inset == IF effect.type = "INNER_SHADOW" THEN "inset " ELSE ""
         IN  IF effect.type = "INNER_SHADOW" \/ effect.type = "DROP_SHADOW"
             THEN EffectsLoop(Put(css, "box-shadow",
                                  inset \o " " \o Px(effect.offset.x) \o " " \o Px(effect.offset.y)
                                        \o " " \o Px(effect.radius) \o " " \o GetColorString(effect.color)),
                              Tail(value))
             ELSE EffectsLoop(css, Tail(value))

\* FigmaUtil.GetCssFromNodeProp(prop, node): the properties, or TypeError
GetCssFromNodeProp(prop, node) ==
    LET value == Get(node, prop)
    IN  CASE prop = "style" ->
                Returned(<<[prop |-> "font-family", value |-> "'" \o value.object.fontFamily \o "'"],
                           [prop |-> "font-size", value |-> Px(value.object.fontSize)],
                           [prop |-> "font-weight", value |-> ToString(value.object.fontWeight)],
                           [prop |-> "line-height", value |-> Px(value.object.lineHeightPx)]>>)
          [] prop = "fills" ->
                Returned(FillsLoop(<<>>, value.array,
                                   IF Get(node, "type").string = "TEXT" THEN "color" ELSE "background-color"))
          [] prop = "strokes" -> Returned(StrokesLoop(<<>>, value.array))
          [] prop = "strokeWeight" ->
                \* node.strokes.length: node.strokes is undefined on a node without strokes
                IF ~In("strokes", node) THEN TypeError
                ELSE IF Len(Get(node, "strokes").array) > 0
                     THEN Returned(<<[prop |-> "border-width", value |-> Px(value.number)]>>)
                     ELSE Returned(<<>>)
          [] prop = "cornerRadius" -> Returned(<<[prop |-> "border-radius", value |-> Px(value.number)]>>)
          [] prop = "effects" -> Returned(EffectsLoop(<<>>, value.array))
          [] OTHER -> Returned(<<>>)

RECURSIVE CssLoop(_, _, _)
\* the loop `for(let prop in node)` of GetCssProperties, from attribute i on
CssLoop(css, node, i) ==
    IF i > Len(node) THEN Returned(css)
    ELSE LET got == GetCssFromNodeProp(node[i].prop, node)
         IN  IF got.kind = "raised" THEN got
             ELSE CssLoop(Spread(css, got.css), node, i + 1)

\* FigmaUtil.GetCssProperties(node)
GetCssProperties(node) == CssLoop(<<>>, node, 1)

\* FigmaLayer.constructor: this._styles = FigmaUtil.GetCssProperties(node)
ExtractStyles ==
    /\ cssResult.kind = "none"
    /\ cssResult' = GetCssProperties(cssNode)
    /\ UNCHANGED cssNode
    /\ UNCHANGED otherThanCss

\* a node of the fetched document
InitCss ==
    /\ cssNode \in Nodes
    /\ cssResult = [kind |-> "none"]
    /\ IdleCallbacks
    /\ IdleLayers
    /\ IdleSort
    /\ IdleScopes
    /\ IdleDiff
    /\ IdleFetch
    /\ IdleReload
    /\ IdleLinks
    /\ IdleRange
    /\ IdleFile

NextCss == ExtractStyles

SpecCss == InitCss /\ [][NextCss]_vars

\* ---- claims about the styles of a node -----------------------------------
\* C21: GetCssProperties returns a property map without raising for every
\* node, whichever attributes are absent; a node with a strokeWeight and no
\* strokes yields a map without border-width.
C21_TotalOnEveryNode ==
    cssResult.kind # "none"
    => /\ cssResult.kind = "returned"
       /\ (In("strokeWeight", cssNode) /\ ~In("strokes", cssNode))
            => ~In("border-width", cssResult.css)

\* the SOLID strokes of a node, in array order
SolidStrokes(node) ==
    IF In("strokes", node) THEN SelectSeq(Get(node, "strokes").array, LAMBDA st : st.type = "SOLID")
    ELSE <<>>

\* C26: for a node with several SOLID strokes the border-color is the colour
\* of the first SOLID stroke in array order, and border-style is solid.
C26_FirstSolidStrokeWins ==
    (cssResult.kind = "returned" /\ Len(SolidStrokes(cssNode)) >= 2)
    => /\ In("border-color", cssResult.css)
       /\ Get(cssResult.css, "border-color") = GetColorString(SolidStrokes(cssNode)[1].color)
       /\ Get(cssResult.css, "border-style") = "solid"

\* ---- further claims about the scope tree (SpecScopes) ---------------------
\* C23: for every scope that has a parent, the composed selector
\* (cssScopeName) holds no parent reference `&` any more: every `&` of the raw
\* selector is replaced by the parent's composed selector.
C23_NoParentReferenceLeft ==
    parsed =>
        \A s \in 1..Len(scopes) :
            scopes[s].parent # 0 => ~includes(cssScopeName(scopes, s), <<"&">>)

\* the rules of the text whose raw selector is one of the globalRules
GlobalRuleIndexes == {i \in 1..Len(text) : text[i].type = "rule" /\ text[i].selector \in globalRules}

\* C24: a rule whose raw selector is body, html, * or :root creates no scope,
\* and what it holds (declarations, variable bindings, nested rules) is added
\* to the base scope, at whatever depth the rule is.
C24_GlobalRuleAugmentsBase ==
    parsed =>
        \A i \in GlobalRuleIndexes :
            /\ Len(StateAfter(i).scopes) = Len(StateBefore(i).scopes)
            /\ LET st == StateAfter(i) IN st.stack[Len(st.stack)] = 1

\* ------------------------------------------------------------------------
\* Stylesheet.calculateRange for a rule node (src/src/stylesheet.ts)
\* ------------------------------------------------------------------------
\* most characters of the document
MaxChars == 6

NewLine == "\n"

\* the characters of the document: a selector character, a blank, the end of
\* a line and the opening brace
DocChars == {"a", " ", NewLine, "{"}

\* /\s/.test(c)
IsWhitespace(c) == c \in {" ", NewLine}

RECURSIVE SplitLines(_, _)
\* the lines of the document (document.lineAt(n).text is lines[n + 1]):
\* cur is the line being read
SplitLines(chars, cur) ==
    IF chars = <<>> THEN <<cur>>
    ELSE IF Head(chars) = NewLine THEN <<cur>> \o SplitLines(Tail(chars), <<>>)
    ELSE SplitLines(Tail(chars), Append(cur, Head(chars)))

Lines(chars) == SplitLines(chars, <<>>)

\* index in the document of a position
OffsetOf(chars, line, character) ==
    LET ls == Lines(chars)
        RECURSIVE Before(_)
        Before(n) == IF n = 0 THEN 0 ELSE Before(n - 1) + Len(ls[n]) + 1
    IN  Before(line) + character + 1

\* new vscode.Position(line, character)
Position(line, character) == [line |-> line, character |-> character]

RECURSIVE PositionOfOffset(_, _, _, _)
\* the position of the character at index k of the document
PositionOfOffset(chars, k, line, character) ==
    IF k = 1 THEN Position(line, character)
    ELSE IF Head(chars) = NewLine THEN PositionOfOffset(Tail(chars), k - 1, line + 1, 0)
    ELSE PositionOfOffset(Tail(chars), k - 1, line, character + 1)

\* the documents, and in each the places a rule can start: at a selector
\* character that begins the document or follows a blank, a line end or a
\* brace, with an opening brace somewhere after it
Documents == UNION {[1..n -> DocChars] : n \in 1..MaxChars}

RuleStarts(chars) ==
    {k \in 1..Len(chars) :
        /\ chars[k] = "a"
        /\ (k = 1 \/ chars[k - 1] # "a")
        /\ \E b \in (k + 1)..Len(chars) : chars[b] = "{"}

\* new vscode.Range(start, end)
VsRange(start, end) == [kind |-> "range", start |-> start, end |-> end]

RECURSIVE SearchBrace(_, _, _, _, _)
\* the do-while of calculateRange, at (lineNumber, colNumber)
SearchBrace(lines, startPosition, lineNumber, colNumber, nonWSColNumber) ==
    LET lineText == lines[lineNumber + 1]
    IN  IF colNumber < Len(lineText)
        THEN IF lineText[colNumber + 1] = "{"
             THEN VsRange(startPosition, Position(lineNumber, nonWSColNumber))
             ELSE SearchBrace(lines, startPosition, lineNumber, colNumber + 1,
                              IF IsWhitespace(lineText[colNumber + 1]) THEN colNumber
                              ELSE nonWSColNumber)
        ELSE IF lineNumber + 1 < Len(lines)
             THEN SearchBrace(lines, startPosition, lineNumber + 1, 0, nonWSColNumber)
             ELSE [kind |-> "undefined"]

\* Stylesheet.calculateRange(node) for a node of type rule
calculateRangeOfRule(chars, startPosition) ==
    SearchBrace(Lines(chars), startPosition, startPosition.line, startPosition.character,
                startPosition.character)

\* createStyleSheetScopes: let range = this.calculateRange(node)
calculateRange ==
    /\ ruleRange.kind = "none"
    /\ ruleRange' = calculateRangeOfRule(docText, ruleStart)
    /\ UNCHANGED <<docText, ruleStart>>
    /\ UNCHANGED otherThanRange

\* a document and a rule of it
InitRange ==
    /\ docText \in Documents
    /\ \E k \in RuleStarts(docText) : ruleStart = PositionOfOffset(docText, k, 0, 0)
    /\ ruleRange = [kind |-> "none"]
    /\ IdleCallbacks
    /\ IdleLayers
    /\ IdleSort
    /\ IdleScopes
    /\ IdleDiff
    /\ IdleFetch
    /\ IdleReload
    /\ IdleLinks
    /\ IdleCss
    /\ IdleFile

NextRange == calculateRange

SpecRange == InitRange /\ [][NextRange]_vars

\* ---- claims about the range ----------------------------------------------
\* index of the opening brace of the rule: the first brace after its start
BraceOffset ==
    LET from == OffsetOf(docText, ruleStart.line, ruleStart.character)
        at == {b \in (from + 1)..Len(docText) : docText[b] = "{"}
    IN  CHOOSE b \in at : \A c \in at : b <= c

\* index of the last character before the brace that is no whitespace
LastSelectorOffset ==
    LET from == OffsetOf(docText, ruleStart.line, ruleStart.character)
        at == {k \in from..(BraceOffset - 1) : ~IsWhitespace(docText[k])}
    IN  CHOOSE k \in at : \A j \in at : j <= k

\* C25: the selector range of a rule starts at the rule's start position and
\* ends immediately after the last character before the opening brace that is
\* no whitespace.
C25_RangeCoversSelector ==
    ruleRange.kind # "none"
    => /\ ruleRange.kind = "range"
       /\ ruleRange.start = ruleStart
       /\ ruleRange.end =
            LET last == PositionOfOffset(docText, LastSelectorOffset, 0, 0)
            IN  Position(last.line, last.character + 1)

\* ---- a further claim about the links (SpecLinks) --------------------------
\* C28: for every layer L of the current layer tree, getLayerById(L.id)
\* returns the layer built for L's node, and layers of different documents
\* are never held under one key.
C28_LayerIdIsItsKey ==
    /\ \A i \in 1..Len(builtLayers) :
          getLayerById(LayerId(builtLayers[i])) = builtLayers[i]
    /\ \A i, j \in 1..Len(builtLayers) :
          builtLayers[i].fileKey # builtLayers[j].fileKey
          => builtLayers[i].nodeId # builtLayers[j].nodeId

\* ---- a further claim about the layer tree (SpecLayers) ------------------
\* C29: pruned parent and pruned children are inverse views of one tree: for
\* every layer p that is not unnecessary and every layer c among p's pruned
\* children, the pruned parent of c is p; and the pruned parent of a layer is
\* never an unnecessary layer.
C29_PrunedParentInverse ==
    Rendered =>
        /\ \A p \in Layers :
              ~UnnecessarySpec(p) =>
                  \A i \in 1..Len(prunedChildren[p]) :
                      prunedParent[prunedChildren[p][i]] = p
        /\ \A l \in Layers :
              prunedParent[l] # 0 => ~UnnecessarySpec(prunedParent[l])

\* C29 witness: a pruned child whose direct parent is an unnecessary layer
\* has the layer two levels up as its pruned parent
C29_Witness ==
    /\ Rendered
    /\ \E p \in Layers : \E i \in 1..Len(prunedChildren[p]) :
          LET c == prunedChildren[p][i]
          IN  /\ ~UnnecessarySpec(p)
              /\ doc[c].parent # p
              /\ UnnecessarySpec(doc[c].parent)
              /\ prunedParent[c] = p
\* ------------------------------------------------------------------------
\* Fetch of the design document by a file's state
\* (src/src/filestate.ts, FileState.fetchAPIData)
\* ------------------------------------------------------------------------
\* the keys a stylesheet file can be attached to; a document's id is the key
\* of its file
DocumentKeys == {"K1", "K2"}

\* FileState.storage.components holds nothing
NoCachedFile == [kind |-> "none"]

\* new FigmaFile(data): the snapshot of the document the answer carries
FigmaFileOf(data) ==
    [kind |-> "file", key |-> data.documentId, lastModified |-> data.lastModified]

\* getter FileState.fileName, the name of a document being "Design <key>"
fileName(file) ==
    IF file = NoCachedFile THEN "undefined" ELSE "Design " \o file.key

\* set status(status) of FileState: the ERROR case has no `break` and runs
\* into default
setFileStatus(bar, status, file) ==
    CASE status = "NOT_ATTACHED" ->
            showStatusBar(bar, "$(circle-slash) Not connected to Figma", SyncCommand)
      [] status = "SYNCING" -> showStatusBar(bar, SyncingText, "")
      [] status = "SYNCED" ->
            showStatusBar(bar, "$(check) Figma: " \o fileName(file), RemoveCommand)
      [] status = "ERROR" -> hide(showStatusBar(bar, ErrorText, SyncCommand))
      [] OTHER -> hide(bar)

\* FileState.getDefaultStatus, the language of the document being supported
getDefaultStatus(file) ==
    IF file # NoCachedFile THEN "SYNCED" ELSE "NOT_ATTACHED"

\* number of requests sent so far
FileFetches ==
    Cardinality(fileRequests) + Cardinality(fileResponses) + Cardinality(fileSettled)

\* FileState.fetchAPIData with the file key `key` stored (the API key is
\* set): without a key the status is ERROR and the call throws
fetchAPIDataWith(key) ==
    IF key # "undefined"
    THEN /\ fileStatusBar' = setFileStatus(fileStatusBar, "SYNCING", cachedFile)
         /\ fileRequests' = fileRequests \cup {[id |-> FileFetches + 1, key |-> key]}
    ELSE /\ fileStatusBar' = setFileStatus(fileStatusBar, "ERROR", cachedFile)
         /\ UNCHANGED fileRequests

\* FileState.fetchAPIData
fetchAPIData ==
    /\ FileFetches < MaxFetches
    /\ fetchAPIDataWith(storedFileKey)
    /\ UNCHANGED <<storedFileKey, fileResponses, cachedFile, fileSettled>>
    /\ UNCHANGED otherThanFile

\* FileState.attachFile(fileKey)
attachFile(fileKey) ==
    /\ FileFetches < MaxFetches
    /\ storedFileKey' = fileKey
    /\ fetchAPIDataWith(fileKey)
    /\ UNCHANGED <<fileResponses, cachedFile, fileSettled>>
    /\ UNCHANGED otherThanFile

\* api.figma.com answers a request with the document of the requested key
FileRespond(req, lastModified) ==
    /\ req \in fileRequests
    /\ fileRequests' = fileRequests \ {req}
    /\ fileResponses' = fileResponses \cup
          {[id |-> req.id, documentId |-> req.key, lastModified |-> lastModified]}
    /\ UNCHANGED <<storedFileKey, cachedFile, fileStatusBar, fileSettled>>
    /\ UNCHANGED otherThanFile

\* client.file(this.fileKey).then(({ data }) => ...)
FileFetchFulfilled(data) ==
    /\ data \in fileResponses
    /\ fileResponses' = fileResponses \ {data}
    /\ LET figmaFile0 == cachedFile
       IN  IF figmaFile0 = NoCachedFile \/ figmaFile0.key = data.documentId
           THEN LET figmaFile1 ==
                        IF figmaFile0 = NoCachedFile
                              \/ data.lastModified # figmaFile0.lastModified
                        THEN FigmaFileOf(data)
                        ELSE figmaFile0
                IN  /\ cachedFile' = figmaFile1
                    /\ fileStatusBar' = setFileStatus(fileStatusBar, "SYNCED", figmaFile1)
           ELSE UNCHANGED <<cachedFile, fileStatusBar>>
    /\ fileSettled' = fileSettled \cup
          {[id |-> data.id, outcome |-> "fulfilled", documentId |-> data.documentId]}
    /\ UNCHANGED <<storedFileKey, fileRequests>>
    /\ UNCHANGED otherThanFile

\* .catch(reason => ...): the fetch is rejected
FileFetchRejected(req) ==
    /\ req \in fileRequests
    /\ fileRequests' = fileRequests \ {req}
    /\ fileStatusBar' = setFileStatus(fileStatusBar, "ERROR", cachedFile)
    /\ fileSettled' = fileSettled \cup
          {[id |-> req.id, outcome |-> "rejected", documentId |-> req.key]}
    /\ UNCHANGED <<storedFileKey, fileResponses, cachedFile>>
    /\ UNCHANGED otherThanFile

\* FileState.load: the stored key and cache of the file, and the default
\* status
InitFile ==
    /\ storedFileKey \in {"undefined"} \cup DocumentKeys
    /\ cachedFile \in {NoCachedFile} \cup
          (IF storedFileKey = "undefined" THEN {}
           ELSE {[kind |-> "file", key |-> storedFileKey, lastModified |-> 1]})
    /\ fileRequests = {}
    /\ fileResponses = {}
    /\ fileStatusBar = setFileStatus([text |-> "", command |-> "", visible |-> FALSE],
                                     getDefaultStatus(cachedFile), cachedFile)
    /\ fileSettled = {}
    /\ IdleCallbacks
    /\ IdleLayers
    /\ IdleSort
    /\ IdleScopes
    /\ IdleDiff
    /\ IdleFetch
    /\ IdleReload
    /\ IdleLinks
    /\ IdleCss
    /\ IdleRange

NextFile ==
    \/ fetchAPIData
    \/ \E fileKey \in DocumentKeys : attachFile(fileKey)
    \/ \E req \in fileRequests : \E lastModified \in 1..MaxModified :
          FileRespond(req, lastModified)
    \/ \E data \in fileResponses : FileFetchFulfilled(data)
    \/ \E req \in fileRequests : FileFetchRejected(req)

SpecFile == InitFile /\ [][NextFile]_vars

\* ---- a claim about the fetch of a file's state ---------------------------
\* C30: once every in-flight fetch has settled, resolved or rejected, the
\* status is not SYNCING: each settled fetch moves the status to SYNCED or to
\* ERROR, also when the answer belongs to a document other than the cached one.
C30_SettledIsNotSyncing ==
    (fileRequests = {} /\ fileResponses = {} /\ fileSettled # {})
    => fileStatusBar.text # SyncingText
====
